---- MODULE Spec2Model ----
(***************************************************************************)
(* A model of the rich-text CRDT of yorkie-js-sdk (RGATreeSplit, CRDTText, *)
(* StyleOperation) and of the Document loop around it (update, undo,       *)
(* applyChange, garbageCollect).                                           *)
(*                                                                         *)
(* An RGATreeSplit is modelled as the sequence of its nodes in list order, *)
(* the head first.  The links prev/next are the neighbours in the          *)
(* sequence; insPrev/insNext are kept per node as positions in the         *)
(* sequence (0 for undefined).  treeByID is the set of nodes whose inID    *)
(* flag is set; treeByIndex is the field w (the length the index tree      *)
(* counts for the node).                                                   *)
(***************************************************************************)
EXTENDS Integers, Sequences, FiniteSets, TLC

\* With(value, Then) is Then(value): the value of a step, named for the
\* steps that follow it.
With(value, Then(_)) == Then(value)

----------------------------------------------------------------------------
(* Time layer: TimeTicket, ActorID, VersionVector.                         *)

InitialActorID == "0"

Actors == {"A", "B"}

\* ActorID values are compared as strings; "0" < "A" < "B".
ActorOrd(a) ==
  CASE a = "0" -> 0
    [] a = "A" -> 1
    [] a = "B" -> 2
    [] OTHER -> 3

MaxLamport == 2147483647

Ticket(l, d, a) == [lamport |-> l, delimiter |-> d, actor |-> a]

InitialTimeTicket == Ticket(0, 0, InitialActorID)

\* The value of an optional ticket field that is undefined.
NoTicket == Ticket(-1, -1, "none")

\* TimeTicket.compare: lamport, then actor, then delimiter.
TicketCompare(a, b) ==
  IF a.lamport # b.lamport
    THEN (IF a.lamport > b.lamport THEN 1 ELSE -1)
    ELSE IF ActorOrd(a.actor) # ActorOrd(b.actor)
      THEN (IF ActorOrd(a.actor) > ActorOrd(b.actor) THEN 1 ELSE -1)
      ELSE IF a.delimiter # b.delimiter
        THEN (IF a.delimiter > b.delimiter THEN 1 ELSE -1)
        ELSE 0

After(a, b) == TicketCompare(a, b) > 0

\* The absent version vector of a local edit.
NoVV == [a \in Actors |-> -1]

EmptyVV == [a \in Actors |-> 0]

Max2(x, y) == IF x >= y THEN x ELSE y

Min2(x, y) == IF x <= y THEN x ELSE y

VVMax(v1, v2) == [a \in Actors |-> Max2(v1[a], v2[a])]

VVMin(v1, v2) == [a \in Actors |-> Min2(v1[a], v2[a])]

\* versionVector.get(actorID) ? versionVector.get(actorID) : 0n, or MaxLamport
\* when no version vector is given (local edit).
ClientLamportAtChange(versionVector, actorID) ==
  IF versionVector = NoVV
    THEN MaxLamport
    ELSE IF actorID \in Actors /\ versionVector[actorID] # 0
      THEN versionVector[actorID]
      ELSE 0

----------------------------------------------------------------------------
(* RHT and CRDTTextValue.                                                  *)

AttrKeys == {"b"}

NoAttr == [value |-> "", updatedAt |-> NoTicket]

RHTCreate == [k \in AttrKeys |-> NoAttr]

\* RHT.set: the entry is replaced iff there is none or the ticket is after
\* the one of the entry.
RHTSet(rht, key, val, updatedAt) ==
  IF rht[key] = NoAttr \/ After(updatedAt, rht[key].updatedAt)
    THEN [rht EXCEPT ![key] = [value |-> val, updatedAt |-> updatedAt]]
    ELSE rht

\* RHT.toObject: the key/value pairs that are set.
RHTToObject(rht) == {<<k, rht[k].value>> : k \in {x \in AttrKeys : rht[x] # NoAttr}}

CRDTTextValueCreate(content) == [content |-> content, attributes |-> RHTCreate]

\* CRDTTextValue.substring(indexStart, indexEnd), 0-based, end exclusive.
Substring(value, indexStart, indexEnd) ==
  [content |-> SubSeq(value.content, indexStart + 1, indexEnd),
   attributes |-> value.attributes]

\* CRDTTextValue.setAttr
SetAttr(value, key, val, updatedAt) ==
  [value EXCEPT !.attributes = RHTSet(value.attributes, key, val, updatedAt)]

\* CRDTTextValue.toJSON: the sorted attributes and the content.
ValueToJSON(value) == [attrs |-> RHTToObject(value.attributes), val |-> value.content]

----------------------------------------------------------------------------
(* RGATreeSplitNodeID, RGATreeSplitPos, RGATreeSplitNode.                  *)

NodeID(createdAt, offset) == [createdAt |-> createdAt, offset |-> offset]

InitialRGATreeSplitNodeID == NodeID(InitialTimeTicket, 0)

Pos(id, relativeOffset) == [id |-> id, relativeOffset |-> relativeOffset]

\* RGATreeSplitPos.getAbsoluteID
GetAbsoluteID(pos) == NodeID(pos.id.createdAt, pos.id.offset + pos.relativeOffset)

\* RGATreeSplitNode.createComparator
IDCompare(p1, p2) ==
  LET c == TicketCompare(p1.createdAt, p2.createdAt)
  IN IF c # 0 THEN c
     ELSE IF p1.offset > p2.offset THEN 1
     ELSE IF p1.offset < p2.offset THEN -1
     ELSE 0

\* new RGATreeSplitNode(id, value, removedAt): no links yet, in no index.
\* shared tells that the value object is also the value of the node with
\* the same id in the other root of the document (see NodeDeepcopy).
NewNode(id, value, removedAt) ==
  [id |-> id, value |-> value, removedAt |-> removedAt,
   insPrev |-> 0, insNext |-> 0, w |-> 0, inID |-> FALSE, shared |-> FALSE]

IsRemoved(node) == node.removedAt # NoTicket

GetContentLength(node) == Len(node.value.content)

GetLength(node) == IF IsRemoved(node) THEN 0 ELSE GetContentLength(node)

\* canDelete that takes a tombstone of an earlier ticket as deletable again.
CanDeleteAgain(node, editedAt, clientLamportAtChange) ==
  /\ node.id.createdAt.lamport <= clientLamportAtChange
  /\ (~IsRemoved(node) \/ After(editedAt, node.removedAt))

\* canDelete that does not look at the lamport the editor had seen.
CanDeleteUnseen(node, editedAt, clientLamportAtChange) ==
  IF ~IsRemoved(node) \/ After(editedAt, node.removedAt) THEN ~IsRemoved(node) ELSE FALSE

\* RGATreeSplitNode.canDelete
CanDelete(node, editedAt, clientLamportAtChange) ==
  LET justRemoved == ~IsRemoved(node)
      nodeExisted == node.id.createdAt.lamport <= clientLamportAtChange
  IN IF nodeExisted /\ (~IsRemoved(node) \/ After(editedAt, node.removedAt))
       THEN justRemoved
       ELSE FALSE

\* canStyle that does not look at the lamport the editor had seen.
CanStyleUnseen(node, editedAt, clientLamportAtChange) ==
  ~IsRemoved(node) \/ After(editedAt, node.removedAt)

\* RGATreeSplitNode.canStyle
CanStyle(node, editedAt, clientLamportAtChange) ==
  LET nodeExisted == node.id.createdAt.lamport <= clientLamportAtChange
  IN nodeExisted /\ (~IsRemoved(node) \/ After(editedAt, node.removedAt))

\* RGATreeSplitNode.createPosRange
CreatePosRange(node) == <<Pos(node.id, 0), Pos(node.id, GetLength(node))>>

\* RGATreeSplitNode.deepcopy: the copy holds the same value object.
NodeDeepcopy(node) ==
  [NewNode(node.id, node.value, node.removedAt) EXCEPT !.shared = TRUE]

----------------------------------------------------------------------------
(* RGATreeSplit.                                                           *)

\* new RGATreeSplit(): the head alone, in both indexes.
RGATreeSplitCreate ==
  <<[NewNode(InitialRGATreeSplitNodeID, CRDTTextValueCreate(<<>>), NoTicket)
       EXCEPT !.inID = TRUE]>>

\* SplayTree.indexOf(node): the weights counted before the node.
RECURSIVE SumW(_, _)
SumW(nodes, n) == IF n = 0 THEN 0 ELSE SumW(nodes, n - 1) + nodes[n].w

IndexOf(nodes, p) == SumW(nodes, p - 1)

\* SplayTree.length
TreeLength(nodes) == SumW(nodes, Len(nodes))

\* SplayTree.find(idx): <<position, offset>>; position 0 when idx is out of
\* range (find throws).  Index 0 is the head; a positive index is found in
\* the node whose weight covers it, at an offset in 1..weight.
Find(nodes, idx) ==
  IF idx = 0 THEN <<1, 0>>
  ELSE LET cand == {p \in 1..Len(nodes) :
                      IndexOf(nodes, p) < idx /\ idx <= IndexOf(nodes, p) + nodes[p].w}
       IN IF cand = {} THEN <<0, 0>>
          ELSE LET p == CHOOSE q \in cand : TRUE
               IN <<p, idx - IndexOf(nodes, p)>>

\* LLRBTree.floorEntry(id): the position of the indexed node with the
\* greatest id <= the given id, 0 when there is none.
FloorEntry(nodes, id) ==
  LET cand == {p \in 1..Len(nodes) : nodes[p].inID /\ IDCompare(nodes[p].id, id) <= 0}
  IN IF cand = {} THEN 0
     ELSE CHOOSE p \in cand : \A q \in cand : IDCompare(nodes[q].id, nodes[p].id) <= 0

\* RGATreeSplit.findFloorNode: 0 for undefined.
FindFloorNode(nodes, id) ==
  With(FloorEntry(nodes, id), LAMBDA e :
    IF e = 0 THEN 0
    ELSE IF nodes[e].id # id /\ nodes[e].id.createdAt # id.createdAt THEN 0
    ELSE e)

\* RGATreeSplit.findFloorNodePreferToLeft: 0 when it throws InvalidArgument.
FindFloorNodePreferToLeft(nodes, id) ==
  With(FindFloorNode(nodes, id), LAMBDA n :
    IF n = 0 THEN 0
    ELSE IF id.offset > 0 /\ nodes[n].id.offset = id.offset
      THEN (IF nodes[n].insPrev = 0 THEN n ELSE nodes[n].insPrev)
      ELSE n)

\* RGATreeSplit.indexToPos: ok is FALSE when find throws.
IndexToPos(nodes, idx) ==
  With(Find(nodes, idx), LAMBDA f :
    IF f[1] = 0 THEN [ok |-> FALSE, pos |-> Pos(InitialRGATreeSplitNodeID, 0)]
    ELSE [ok |-> TRUE, pos |-> Pos(nodes[f[1]].id, f[2])])

\* posToIndex that looks the node up without preferring the left one.
PosToIndexNoPrefer(nodes, pos, preferToLeft) ==
  With(FindFloorNode(nodes, GetAbsoluteID(pos)), LAMBDA n :
    IF n = 0 THEN -1
    ELSE IndexOf(nodes, n)
         + (IF IsRemoved(nodes[n]) THEN 0
            ELSE GetAbsoluteID(pos).offset - nodes[n].id.offset))

\* RGATreeSplit.posToIndex: -1 when it throws InvalidArgument.
PosToIndex(nodes, pos, preferToLeft) ==
  With(IF preferToLeft THEN FindFloorNodePreferToLeft(nodes, GetAbsoluteID(pos))
       ELSE FindFloorNode(nodes, GetAbsoluteID(pos)), LAMBDA n :
    IF n = 0 THEN -1
    ELSE IndexOf(nodes, n)
         + (IF IsRemoved(nodes[n]) THEN 0
            ELSE GetAbsoluteID(pos).offset - nodes[n].id.offset))

\* RGATreeSplit.findIndexesFromRange
FindIndexesFromRange(nodes, range) ==
  <<PosToIndex(nodes, range[1], FALSE), PosToIndex(nodes, range[2], TRUE)>>

\* A link (a position in the sequence) after a node was put in at p + 1.
ShiftUp(q, p) == IF q > p THEN q + 1 ELSE q

\* RGATreeSplit.insertAfter(prevNode, newNode) with prevNode at position p:
\* the node is linked in after p, put into treeByID (the entry of an equal
\* id is replaced) and into treeByIndex after prevNode, which recomputes
\* the weight of both.
InsertAfter(nodes, p, newNode) ==
  LET relink(n) == [n EXCEPT !.insPrev = ShiftUp(n.insPrev, p),
                             !.insNext = ShiftUp(n.insNext, p),
                             !.inID = n.inID /\ n.id # newNode.id]
      old == [i \in 1..Len(nodes) |->
                IF i = p THEN [relink(nodes[i]) EXCEPT !.w = GetLength(nodes[i])]
                ELSE relink(nodes[i])]
      new == [newNode EXCEPT !.inID = TRUE, !.w = GetLength(newNode)]
  IN SubSeq(old, 1, p) \o <<new>> \o SubSeq(old, p + 1, Len(old))

TimeTicketSize == 24

\* RHTNode.getDataSize: a key and a value of one letter, and a ticket.
AttrDataSize == 2 * 2 + TimeTicketSize

\* RGATreeSplitNode.getDataSize with CRDTTextValue.getDataSize, data and
\* meta added up: two bytes per letter, the size of every attribute that is
\* set (a key and a value of one letter, and a ticket), a ticket for the id
\* and one for removedAt.
NodeDataSize(node) ==
  2 * Len(node.value.content)
  + Cardinality({k \in AttrKeys : node.value.attributes[k] # NoAttr})
      * AttrDataSize
  + TimeTicketSize
  + (IF IsRemoved(node) THEN TimeTicketSize ELSE 0)

RECURSIVE SumDataSize(_, _)
SumDataSize(nodes, i) ==
  IF i > Len(nodes) THEN 0 ELSE NodeDataSize(nodes[i]) + SumDataSize(nodes, i + 1)

\* splitNode whose new node is not given the removedAt of the node.
SplitNodeAlive(nodes, p, offset) ==
  IF offset > GetContentLength(nodes[p])
    THEN [ok |-> FALSE, nodes |-> nodes, split |-> FALSE, diff |-> 0]
  ELSE IF offset = 0 \/ offset = GetContentLength(nodes[p])
    THEN [ok |-> TRUE, nodes |-> nodes, split |-> FALSE, diff |-> 0]
  ELSE
    LET node == nodes[p]
        left == [node EXCEPT !.value = Substring(node.value, 0, offset),
                             !.shared = FALSE]
        splitNode == NewNode(NodeID(node.id.createdAt, node.id.offset + offset),
                             Substring(node.value, offset, GetContentLength(node)),
                             NoTicket)
    IN With(InsertAfter([nodes EXCEPT ![p] = left], p, splitNode), LAMBDA ins :
         [ok |-> TRUE,
          nodes |-> [i \in 1..Len(ins) |->
                       IF i = p THEN [ins[i] EXCEPT !.insNext = p + 1]
                       ELSE IF i = p + 1
                         THEN [ins[i] EXCEPT !.insPrev = p, !.insNext = ins[p].insNext]
                       ELSE IF ins[p].insNext # 0 /\ i = ins[p].insNext
                         THEN [ins[i] EXCEPT !.insPrev = p + 1]
                       ELSE ins[i]],
          split |-> TRUE,
          diff |-> NodeDataSize(left) + NodeDataSize(splitNode) - NodeDataSize(node)])

\* RGATreeSplit.splitNode(node, offset) with node at position p.  ok is
\* FALSE when it throws; split tells whether a node was put in at p + 1;
\* diff is the data size the split adds (data and meta added up).
SplitNode(nodes, p, offset) ==
  IF offset > GetContentLength(nodes[p])
    THEN [ok |-> FALSE, nodes |-> nodes, split |-> FALSE, diff |-> 0]
  ELSE IF offset = 0 \/ offset = GetContentLength(nodes[p])
    THEN [ok |-> TRUE, nodes |-> nodes, split |-> FALSE, diff |-> 0]
  ELSE
    LET node == nodes[p]
        \* node.split(offset): the node keeps the left part of the value,
        \* the new node gets the right part and the removedAt.
        left == [node EXCEPT !.value = Substring(node.value, 0, offset),
                             !.shared = FALSE]
        splitNode == NewNode(NodeID(node.id.createdAt, node.id.offset + offset),
                             Substring(node.value, offset, GetContentLength(node)),
                             node.removedAt)
    IN With(InsertAfter([nodes EXCEPT ![p] = left], p, splitNode), LAMBDA ins :
         \* insNext.setInsPrev(splitNode); splitNode.setInsPrev(node)
         [ok |-> TRUE,
          nodes |-> [i \in 1..Len(ins) |->
                       IF i = p THEN [ins[i] EXCEPT !.insNext = p + 1]
                       ELSE IF i = p + 1
                         THEN [ins[i] EXCEPT !.insPrev = p, !.insNext = ins[p].insNext]
                       ELSE IF ins[p].insNext # 0 /\ i = ins[p].insNext
                         THEN [ins[i] EXCEPT !.insPrev = p + 1]
                       ELSE ins[i]],
          split |-> TRUE,
          \* the sizes of the two nodes minus the size the node had
          diff |-> NodeDataSize(left) + NodeDataSize(splitNode) - NodeDataSize(node)])

\* The walk of findNodeWithSplit with the comparison turned round: over the
\* nodes created before editedAt.
RECURSIVE SkipBefore(_, _, _)
SkipBefore(nodes, p, editedAt) ==
  IF p < Len(nodes) /\ After(editedAt, nodes[p + 1].id.createdAt)
    THEN SkipBefore(nodes, p + 1, editedAt)
    ELSE p

\* The walk of findNodeWithSplit over the nodes created after editedAt.
RECURSIVE SkipAfter(_, _, _)
SkipAfter(nodes, p, editedAt) ==
  IF p < Len(nodes) /\ After(nodes[p + 1].id.createdAt, editedAt)
    THEN SkipAfter(nodes, p + 1, editedAt)
    ELSE p

\* findNodeWithSplit that does not walk over the nodes created after
\* editedAt.
FindNodeWithSplitNoSkip(nodes, pos, editedAt) ==
  With(FindFloorNodePreferToLeft(nodes, GetAbsoluteID(pos)), LAMBDA n :
    IF n = 0 THEN [ok |-> FALSE, nodes |-> nodes, left |-> 0, right |-> 0, at |-> 0,
                   diff |-> 0]
    ELSE With(SplitNode(nodes, n, GetAbsoluteID(pos).offset - nodes[n].id.offset),
              LAMBDA s :
      IF ~s.ok THEN [ok |-> FALSE, nodes |-> nodes, left |-> 0, right |-> 0, at |-> 0,
                     diff |-> 0]
      ELSE [ok |-> TRUE, nodes |-> s.nodes, left |-> n, right |-> n + 1,
            at |-> IF s.split THEN n + 1 ELSE 0, diff |-> s.diff]))

\* RGATreeSplit.findNodeWithSplit: left and right are positions, right is
\* Len(nodes) + 1 when the left node has no next; at is where the split put
\* a node in (0 when it did not).
FindNodeWithSplit(nodes, pos, editedAt) ==
  With(FindFloorNodePreferToLeft(nodes, GetAbsoluteID(pos)), LAMBDA n :
    IF n = 0 THEN [ok |-> FALSE, nodes |-> nodes, left |-> 0, right |-> 0, at |-> 0,
                   diff |-> 0]
    ELSE With(SplitNode(nodes, n, GetAbsoluteID(pos).offset - nodes[n].id.offset),
              LAMBDA s :
      IF ~s.ok THEN [ok |-> FALSE, nodes |-> nodes, left |-> 0, right |-> 0, at |-> 0,
                     diff |-> 0]
      ELSE With(SkipAfter(s.nodes, n, editedAt), LAMBDA l :
        [ok |-> TRUE, nodes |-> s.nodes, left |-> l, right |-> l + 1,
         at |-> IF s.split THEN n + 1 ELSE 0, diff |-> s.diff])))

\* RGATreeSplit.findBetween(fromNode, toNode): the positions from fromNode
\* up to the one before toNode, or up to the end when toNode is not met.
FindBetween(nodes, fromNode, toNode) ==
  IF fromNode > Len(nodes) THEN <<>>
  ELSE LET last == IF toNode >= fromNode THEN toNode - 1 ELSE Len(nodes)
       IN [i \in 1..(last - fromNode + 1) |-> fromNode + i - 1]

\* filterNodes that takes every candidate as deletable.
FilterNodesAll(nodes, candidates, editedAt, versionVector) ==
  [nodesToDelete |-> SelectSeq(candidates, LAMBDA p : ~IsRemoved(nodes[p])),
   nodesToKeep |-> <<candidates[1] - 1, candidates[Len(candidates)] + 1>>]

\* RGATreeSplit.filterNodes: the candidates (positions) to delete, and the
\* boundaries: the left edge, the candidates to keep, the right edge
\* (Len(nodes) + 1 when the last candidate has no next).
FilterNodes(nodes, candidates, editedAt, versionVector) ==
  LET del(p) == CanDelete(nodes[p], editedAt,
                          ClientLamportAtChange(versionVector, nodes[p].id.createdAt.actor))
      leftEdge == candidates[1] - 1
      rightEdge == candidates[Len(candidates)] + 1
  IN [nodesToDelete |-> SelectSeq(candidates, del),
      nodesToKeep |-> <<leftEdge>> \o SelectSeq(candidates, LAMBDA p : ~del(p))
                      \o <<rightEdge>>]

\* RGATreeSplit.makeChanges: one {from, to} per pair of boundaries that are
\* not neighbours, the list reversed.  ok is FALSE when posToIndex throws.
RECURSIVE MakeChangesFrom(_, _, _, _)
MakeChangesFrom(nodes, boundaries, i, actor) ==
  IF i >= Len(boundaries) THEN [ok |-> TRUE, changes |-> <<>>]
  ELSE
    LET leftBoundary == boundaries[i]
        rightBoundary == boundaries[i + 1]
    IN With(MakeChangesFrom(nodes, boundaries, i + 1, actor), LAMBDA rest :
         IF leftBoundary + 1 = rightBoundary THEN rest
         ELSE
           With(FindIndexesFromRange(nodes, CreatePosRange(nodes[leftBoundary + 1]))[1],
                LAMBDA fromIdx :
           With(IF rightBoundary <= Len(nodes)
                  THEN FindIndexesFromRange(nodes,
                         CreatePosRange(nodes[rightBoundary - 1]))[2]
                  ELSE TreeLength(nodes),
                LAMBDA toIdx :
             IF fromIdx = -1 \/ toIdx = -1 THEN [ok |-> FALSE, changes |-> <<>>]
             ELSE IF fromIdx < toIdx
               THEN [ok |-> rest.ok,
                     changes |-> rest.changes
                                 \o <<[actor |-> actor, from |-> fromIdx, to |-> toIdx,
                                       hasValue |-> FALSE]>>]
               ELSE rest)))

MakeChanges(nodes, boundaries, editedAt) ==
  MakeChangesFrom(nodes, boundaries, 1, editedAt.actor)

\* Whether position p lies strictly between two neighbouring boundaries.
BetweenBoundaries(boundaries, p) ==
  \E i \in 1..(Len(boundaries) - 1) : boundaries[i] < p /\ p < boundaries[i + 1]

\* deleteIndexNodes that leaves the index of weights as it is.
DeleteIndexNodesKept(nodes, boundaries) == nodes

\* RGATreeSplit.deleteIndexNodes: treeByIndex.deleteRange(left, right) for
\* the boundaries that are not neighbours; the nodes between them are
\* given their current length as weight.
DeleteIndexNodes(nodes, boundaries) ==
  [p \in 1..Len(nodes) |->
     IF BetweenBoundaries(boundaries, p)
       THEN [nodes[p] EXCEPT !.w = GetLength(nodes[p])]
       ELSE nodes[p]]

\* deleteNodes that removes every candidate, tombstones included.
DeleteNodesAgain(nodes, candidates, editedAt, versionVector) ==
  IF Len(candidates) = 0
    THEN [ok |-> TRUE, nodes |-> nodes, changes |-> <<>>, removed |-> {}]
  ELSE
    With(FilterNodes(nodes, candidates, editedAt, versionVector), LAMBDA f :
    With(MakeChanges(nodes, f.nodesToKeep, editedAt), LAMBDA ch :
      LET toDelete == {candidates[i] : i \in 1..Len(candidates)}
          tombs == [p \in 1..Len(nodes) |->
                      IF p \in toDelete THEN [nodes[p] EXCEPT !.removedAt = editedAt]
                      ELSE nodes[p]]
      IN [ok |-> ch.ok,
          nodes |-> DeleteIndexNodes(tombs, f.nodesToKeep),
          changes |-> ch.changes,
          removed |-> toDelete]))

\* RGATreeSplit.deleteNodes: removed holds the positions made tombstones.
DeleteNodes(nodes, candidates, editedAt, versionVector) ==
  IF Len(candidates) = 0
    THEN [ok |-> TRUE, nodes |-> nodes, changes |-> <<>>, removed |-> {}]
  ELSE
    With(FilterNodes(nodes, candidates, editedAt, versionVector), LAMBDA f :
    With(MakeChanges(nodes, f.nodesToKeep, editedAt), LAMBDA ch :
      LET toDelete == {f.nodesToDelete[i] : i \in 1..Len(f.nodesToDelete)}
          tombs == [p \in 1..Len(nodes) |->
                      IF p \in toDelete THEN [nodes[p] EXCEPT !.removedAt = editedAt]
                      ELSE nodes[p]]
      IN [ok |-> ch.ok,
          nodes |-> DeleteIndexNodes(tombs, f.nodesToKeep),
          changes |-> ch.changes,
          removed |-> toDelete]))

\* The result of an edit that throws; nodes holds the splits done so far.
EditFailed(nodes) ==
  [ok |-> FALSE, nodes |-> nodes, changes |-> <<>>, pairs |-> {},
   caretPos |-> Pos(InitialRGATreeSplitNodeID, 0), diff |-> 0, entombed |-> 0]

\* RGATreeSplit.edit(range, editedAt, value, versionVector), called by
\* CRDTText.edit with value = CRDTTextValue.create(content) when content is
\* not empty (hasValue).  pairs holds the ids of the nodes returned as GC
\* pairs, diff the data size returned, entombed the number of the nodes
\* that had no removedAt and got one.
Edit(nodes, range, editedAt, hasValue, value, versionVector) ==
  \* 01. split nodes with from and to
  With(FindNodeWithSplit(nodes, range[2], editedAt), LAMBDA t :
    IF ~t.ok THEN EditFailed(nodes)
    ELSE
  With(FindNodeWithSplit(t.nodes, range[1], editedAt), LAMBDA f :
    IF ~f.ok THEN EditFailed(t.nodes)
    ELSE
      LET \* toLeft and toRight are references: they follow the node
          \* when the second split puts a node in before them.
          toLeft == IF f.at # 0 /\ t.left >= f.at THEN t.left + 1 ELSE t.left
          toRight == IF f.at # 0 /\ t.right >= f.at THEN t.right + 1 ELSE t.right
          fromLeft == f.left
          fromRight == f.right
      IN
  \* 02. delete between from and to
  With(DeleteNodes(f.nodes, FindBetween(f.nodes, fromRight, toRight),
                   editedAt, versionVector), LAMBDA d :
      LET caretID == IF toRight <= Len(d.nodes) THEN d.nodes[toRight].id
                     ELSE d.nodes[toLeft].id
          pairs == {d.nodes[p].id : p \in d.removed}
          entombed == Cardinality({p \in d.removed : ~IsRemoved(f.nodes[p])})
      IN IF ~d.ok THEN EditFailed(f.nodes)
         ELSE IF ~hasValue
           THEN [ok |-> TRUE, nodes |-> d.nodes, changes |-> d.changes,
                 pairs |-> pairs, caretPos |-> Pos(caretID, 0),
                 diff |-> t.diff + f.diff, entombed |-> entombed]
         ELSE
  \* 03. insert a new node
  With(PosToIndex(d.nodes, CreatePosRange(d.nodes[fromLeft])[2], TRUE), LAMBDA idx :
      LET inserted == NewNode(NodeID(editedAt, 0), value, NoTicket)
          n == Len(d.changes)
          changes ==
            IF n > 0 /\ d.changes[n].from = idx
              THEN [d.changes EXCEPT ![n].hasValue = TRUE]
              ELSE Append(d.changes,
                          [actor |-> editedAt.actor, from |-> idx, to |-> idx,
                           hasValue |-> TRUE])
      IN IF idx = -1 THEN EditFailed(d.nodes)
         ELSE [ok |-> TRUE, nodes |-> InsertAfter(d.nodes, fromLeft, inserted),
               changes |-> changes, pairs |-> pairs,
               caretPos |-> Pos(inserted.id, GetContentLength(inserted)),
               diff |-> t.diff + f.diff + NodeDataSize(inserted),
               entombed |-> entombed]))))

\* CRDTText.edit that gives RGATreeSplit.edit a value to insert even when
\* the content is empty.
TextEditAlways(nodes, range, content, editedAt, attributes, versionVector) ==
  Edit(nodes, range, editedAt, TRUE, CRDTTextValueCreate(content), versionVector)

\* CRDTText.edit: the value of the new node carries the given attributes,
\* set at editedAt.
TextEdit(nodes, range, content, editedAt, attributes, versionVector) ==
  LET plain == CRDTTextValueCreate(content)
      keys == {kv[1] : kv \in attributes}
      value == [plain EXCEPT !.attributes =
                  [k \in AttrKeys |->
                     IF k \in keys
                       THEN [value |-> (CHOOSE kv \in attributes : kv[1] = k)[2],
                             updatedAt |-> editedAt]
                       ELSE NoAttr]]
  IN Edit(nodes, range, editedAt, Len(content) > 0, value, versionVector)

\* Sets the attributes (a set of <<key, value>>) on a value, as the loop
\* over Object.entries(attributes) of CRDTText.setStyle does.
SetAttrs(value, attributes, editedAt) ==
  [value EXCEPT !.attributes =
     [k \in AttrKeys |->
        IF \E kv \in attributes : kv[1] = k
          THEN RHTSet(value.attributes, k, (CHOOSE kv \in attributes : kv[1] = k)[2],
                      editedAt)[k]
          ELSE value.attributes[k]]]

\* The style changes with one for every styled node, removed or not.
RECURSIVE StyleChangesOfRemoved(_, _, _, _)
StyleChangesOfRemoved(nodes, toBeStyleds, i, actor) ==
  IF i > Len(toBeStyleds) THEN <<>>
  ELSE With(FindIndexesFromRange(nodes, CreatePosRange(nodes[toBeStyleds[i]])),
            LAMBDA r :
         <<[actor |-> actor, from |-> r[1], to |-> r[2],
            id |-> nodes[toBeStyleds[i]].id]>>
         \o StyleChangesOfRemoved(nodes, toBeStyleds, i + 1, actor))

\* The style changes of CRDTText.setStyle, one per styled node that is not
\* removed, in list order.
RECURSIVE StyleChanges(_, _, _, _)
StyleChanges(nodes, toBeStyleds, i, actor) ==
  IF i > Len(toBeStyleds) THEN <<>>
  ELSE With(FindIndexesFromRange(nodes, CreatePosRange(nodes[toBeStyleds[i]])),
            LAMBDA r :
         (IF IsRemoved(nodes[toBeStyleds[i]]) THEN <<>>
          ELSE <<[actor |-> actor, from |-> r[1], to |-> r[2],
                  id |-> nodes[toBeStyleds[i]].id]>>)
         \o StyleChanges(nodes, toBeStyleds, i + 1, actor))

\* CRDTText.setStyle(range, attributes, editedAt, versionVector).  styled
\* holds the positions whose value got the attributes, diff the data size
\* returned, replaced the number of the pairs returned.
SetStyle(nodes, range, attributes, editedAt, versionVector) ==
  \* 01. split nodes with from and to
  With(FindNodeWithSplit(nodes, range[2], editedAt), LAMBDA t :
    IF ~t.ok THEN [ok |-> FALSE, nodes |-> nodes, changes |-> <<>>, styled |-> {},
                   diff |-> 0, replaced |-> 0]
    ELSE
  With(FindNodeWithSplit(t.nodes, range[1], editedAt), LAMBDA f :
    IF ~f.ok THEN [ok |-> FALSE, nodes |-> t.nodes, changes |-> <<>>, styled |-> {},
                   diff |-> 0, replaced |-> 0]
    ELSE
      LET toRight == IF f.at # 0 /\ t.right >= f.at THEN t.right + 1 ELSE t.right
          fromRight == f.right
          can(p) == CanStyle(f.nodes[p], editedAt,
                      ClientLamportAtChange(versionVector,
                                            f.nodes[p].id.createdAt.actor))
      IN
  \* 02. style nodes between from and to
  With(SelectSeq(FindBetween(f.nodes, fromRight, toRight), can), LAMBDA toBeStyleds :
  With(StyleChanges(f.nodes, toBeStyleds, 1, editedAt.actor), LAMBDA changes :
      LET styled == {toBeStyleds[i] : i \in 1..Len(toBeStyleds)}
                      \ {p \in 1..Len(f.nodes) : IsRemoved(f.nodes[p])}
      IN IF \E i \in 1..Len(changes) : changes[i].from = -1 \/ changes[i].to = -1
           THEN [ok |-> FALSE, nodes |-> f.nodes, changes |-> <<>>, styled |-> {},
                 diff |-> 0, replaced |-> 0]
           ELSE [ok |-> TRUE,
                 nodes |-> [p \in 1..Len(f.nodes) |->
                              IF p \in styled
                                THEN [f.nodes[p] EXCEPT !.value =
                                        SetAttrs(f.nodes[p].value, attributes, editedAt)]
                                ELSE f.nodes[p]],
                 changes |-> changes,
                 styled |-> styled,
                 \* addDataSizes(diff, curr.getDataSize()) for every key of
                 \* every styled node: curr is there whether setAttr has
                 \* put it or not
                 diff |-> t.diff + f.diff
                          + Cardinality(styled \X {kv[1] : kv \in attributes})
                            * AttrDataSize,
                 \* the entries setAttr returns as prev: the pairs
                 replaced |-> Cardinality(
                   {pk \in styled \X {kv[1] : kv \in attributes} :
                      /\ f.nodes[pk[1]].value.attributes[pk[2]] # NoAttr
                      /\ After(editedAt,
                               f.nodes[pk[1]].value.attributes[pk[2]].updatedAt)})]))))

\* A link after the node at position p was purged: the links to p are set
\* by the caller, the ones behind p move down.
ShiftDown(q, p) == IF q > p THEN q - 1 ELSE q

\* RGATreeSplit.purge(node) with node at position p.
Purge(nodes, p) ==
  LET node == nodes[p]
      insPrev == node.insPrev
      insNext == node.insNext
      relinked == [i \in 1..Len(nodes) |->
                     LET n == [nodes[i] EXCEPT !.inID = nodes[i].inID /\ nodes[i].id # node.id]
                     IN IF i = insPrev /\ insPrev # 0 THEN [n EXCEPT !.insNext = insNext]
                        ELSE IF i = insNext /\ insNext # 0 THEN [n EXCEPT !.insPrev = insPrev]
                        ELSE n]
      moved == [i \in 1..Len(nodes) |->
                  [relinked[i] EXCEPT !.insPrev = ShiftDown(relinked[i].insPrev, p),
                                      !.insNext = ShiftDown(relinked[i].insNext, p)]]
  IN SubSeq(moved, 1, p - 1) \o SubSeq(moved, p + 1, Len(moved))

\* RGATreeSplit.deepcopy: every node but the head is copied and put in
\* after the copy of its predecessor; insPrev is looked up by id in the
\* copy built so far.
RECURSIVE DeepcopyFrom(_, _, _)
DeepcopyFrom(nodes, clone, i) ==
  IF i > Len(nodes) THEN clone
  ELSE
    With(InsertAfter(clone, i - 1, NodeDeepcopy(nodes[i])), LAMBDA ins :
    With(IF nodes[i].insPrev = 0 THEN 0
         ELSE FindFloorNode(ins, nodes[nodes[i].insPrev].id), LAMBDA insPrevNode :
      DeepcopyFrom(nodes,
                   IF insPrevNode = 0 THEN ins
                   ELSE [ins EXCEPT ![i].insPrev = insPrevNode,
                                    ![insPrevNode].insNext = i],
                   i + 1)))

Deepcopy(nodes) == DeepcopyFrom(nodes, RGATreeSplitCreate, 2)

\* RGATreeSplit.toString
RECURSIVE ToStringFrom(_, _)
ToStringFrom(nodes, i) ==
  IF i > Len(nodes) THEN <<>>
  ELSE (IF IsRemoved(nodes[i]) THEN <<>> ELSE nodes[i].value.content)
       \o ToStringFrom(nodes, i + 1)

TextToString(nodes) == ToStringFrom(nodes, 2)

\* CRDTText.toJSON and toSortedJSON: the values of the nodes that are not
\* removed, in list order.
RECURSIVE ToJSONFrom(_, _)
ToJSONFrom(nodes, i) ==
  IF i > Len(nodes) THEN <<>>
  ELSE (IF IsRemoved(nodes[i]) THEN <<>> ELSE <<ValueToJSON(nodes[i].value)>>)
       \o ToJSONFrom(nodes, i + 1)

ToSortedJSON(nodes) == ToJSONFrom(nodes, 2)

\* CRDTText.indexRangeToPosRange
IndexRangeToPosRange(nodes, fromIdx, toIdx) ==
  With(IndexToPos(nodes, fromIdx), LAMBDA fromPos :
  With(IF fromIdx = toIdx THEN fromPos ELSE IndexToPos(nodes, toIdx), LAMBDA toPos :
    [ok |-> fromPos.ok /\ toPos.ok, range |-> <<fromPos.pos, toPos.pos>>]))

----------------------------------------------------------------------------
(* ChangeID, Operation, Change and CRDTRoot.                               *)

InitialDelimiter == 0

\* ChangeID: clientSeq, lamport, actor and version vector.
ChangeIDOf(clientSeq, lamport, actor, versionVector) ==
  [clientSeq |-> clientSeq, lamport |-> lamport, actor |-> actor,
   versionVector |-> versionVector]

\* InitialChangeID, with the actor set when the document is attached.
InitialChangeIDOf(actor) == ChangeIDOf(0, 0, actor, EmptyVV)

\* ChangeID.next(excludeClocks)
ChangeIDNext(id, excludeClocks) ==
  IF excludeClocks
    THEN ChangeIDOf(id.clientSeq + 1, id.lamport, id.actor, id.versionVector)
    ELSE ChangeIDOf(id.clientSeq + 1, id.lamport + 1, id.actor,
                    [id.versionVector EXCEPT ![id.actor] = id.lamport + 1])

\* ChangeID.syncClocks(other)
SyncClocks(id, other) ==
  LET lamport == IF other.lamport > id.lamport THEN other.lamport + 1
                 ELSE id.lamport + 1
  IN ChangeIDOf(id.clientSeq, lamport, id.actor,
                [VVMax(id.versionVector, other.versionVector)
                   EXCEPT ![id.actor] = lamport])

\* ChangeID.setActor
SetActor(id, actor) == [id EXCEPT !.actor = actor]

\* VersionVector.maxLamport
VVMaxLamport(versionVector) ==
  CHOOSE l \in {versionVector[a] : a \in Actors} :
    \A a \in Actors : versionVector[a] <= l

\* ChangeID.setClocks(otherLamport, vector): the lamport does not fall below
\* its own value nor below the given one, the version vectors are merged.
\* tick is what is added to the greater lamport: nothing or one.
SetClocks(id, otherLamport, vector, tick) ==
  ChangeIDOf(id.clientSeq, Max2(id.lamport, otherLamport) + tick, id.actor,
             VVMax(id.versionVector, vector))

\* ChangeID.createTimeTicket(delimiter)
CreateTimeTicket(id, delimiter) == Ticket(id.lamport, delimiter, id.actor)

\* The createdAt of the Text the root object holds under the key "text".
TextCreatedAt == Ticket(0, 1, InitialActorID)

\* An EditOperation or a StyleOperation on the Text of the root.
Operation(type, fromPos, toPos, content, attributes, executedAt) ==
  [type |-> type, parentCreatedAt |-> TextCreatedAt, fromPos |-> fromPos,
   toPos |-> toPos, content |-> content, attributes |-> attributes,
   executedAt |-> executedAt]

\* A CRDTRoot whose object holds one Text: the nodes of the text, the keys
\* of gcPairMap that are nodes of the text (the ids of the registered
\* children), docSize (live and gc, data and meta added up) and the size of
\* the replaced attributes registered as GC pairs.
RootWith(text, gcPairs, docSize, attrGarbage) ==
  [text |-> text, gcPairs |-> gcPairs, docSize |-> docSize, attrGarbage |-> attrGarbage]

\* A root made of a text: the elements are registered and their sizes
\* added up.
RootOf(text, gcPairs) == RootWith(text, gcPairs, SumDataSize(text, 2), 0)

\* CRDTText.getGCPairs: every node that has a removedAt.
GetGCPairs(nodes) == {nodes[p].id : p \in {q \in 1..Len(nodes) : IsRemoved(nodes[q])}}

\* CRDTRoot.deepcopy: the copy of the text, its GC pairs registered anew.
RootDeepcopy(root) ==
  With(Deepcopy(root.text), LAMBDA text : RootOf(text, GetGCPairs(text)))

\* versionVector.afterOrEqual(ticket)
AfterOrEqual(versionVector, ticket) ==
  ticket.actor \in Actors /\ versionVector[ticket.actor] >= ticket.lamport

\* The position of the child registered under id, 0 when it is not there.
ChildOf(nodes, id) ==
  LET cand == {p \in 2..Len(nodes) : nodes[p].id = id}
  IN IF cand = {} THEN 0 ELSE CHOOSE p \in cand : \A q \in cand : p <= q

\* The pairs garbageCollect purges: the children that are removed at a
\* ticket the version vector covers.
Purgeable(root, minSyncedVersionVector) ==
  {id \in root.gcPairs :
     ChildOf(root.text, id) # 0
     /\ IsRemoved(root.text[ChildOf(root.text, id)])
     /\ AfterOrEqual(minSyncedVersionVector, root.text[ChildOf(root.text, id)].removedAt)}

\* parent.purge(child) for every pair of the set.
RECURSIVE PurgeAll(_, _)
PurgeAll(nodes, ids) ==
  IF ids = {} THEN nodes
  ELSE LET id == CHOOSE x \in ids : TRUE
       IN PurgeAll(Purge(nodes, ChildOf(nodes, id)), ids \ {id})

\* The data size of the children with the given ids.
RECURSIVE PurgedSize(_, _)
PurgedSize(nodes, ids) ==
  IF ids = {} THEN 0
  ELSE LET id == CHOOSE x \in ids : TRUE
       IN NodeDataSize(nodes[ChildOf(nodes, id)]) + PurgedSize(nodes, ids \ {id})

\* CRDTRoot.garbageCollect(minSyncedVersionVector): the children are purged
\* and their sizes taken off docSize.
RootGarbageCollect(root, minSyncedVersionVector) ==
  LET ids == Purgeable(root, minSyncedVersionVector)
  IN RootWith(PurgeAll(root.text, ids), root.gcPairs \ ids,
              root.docSize - PurgedSize(root.text, ids), root.attrGarbage)

\* The content of the nodes with the given ids, in list order.
RECURSIVE ContentOf(_, _, _)
ContentOf(nodes, ids, i) ==
  IF i > Len(nodes) THEN <<>>
  ELSE (IF nodes[i].id \in ids THEN nodes[i].value.content ELSE <<>>)
       \o ContentOf(nodes, ids, i + 1)

\* root.createPath(parentCreatedAt): the path of the text, "$.text", as its
\* characters.
TextPath == <<"$", ".", "t", "e", "x", "t">>

\* No subscriber with a path.
NoTarget == <<>>

\* EditOperation.execute: CRDTText.edit on the text, the removed nodes
\* registered as GC pairs, one opInfo per change, and as reverse operation
\* the edit that puts the removed content back in place of the inserted one.
EditExecute(root, op, versionVector) ==
  With(TextEdit(root.text, <<op.fromPos, op.toPos>>, op.content, op.executedAt,
                op.attributes, versionVector), LAMBDA r :
    LET toPos == IF Len(op.content) > 0 THEN r.caretPos ELSE op.fromPos
    IN [ok |-> r.ok,
        \* root.acc(diff); root.registerGCPair(pair) for the removed nodes,
        \* which counts the removedAt of a node that had none
        root |-> RootWith(r.nodes, root.gcPairs \cup r.pairs,
                          root.docSize + r.diff + r.entombed * TimeTicketSize,
                          root.attrGarbage),
        opInfos |-> [i \in 1..Len(r.changes) |->
                       [type |-> "edit", from |-> r.changes[i].from,
                        to |-> r.changes[i].to, value |-> {}, path |-> TextPath]],
        reverseOps |-> IF r.ok /\ Len(r.changes) > 0
                         THEN <<Operation("edit", op.fromPos, toPos,
                                          ContentOf(r.nodes, r.pairs, 2), {}, NoTicket)>>
                         ELSE <<>>])

\* CRDTRoot.findByCreatedAt: the root object, the Text it holds, or nothing.
FindByCreatedAt(root, createdAt) ==
  IF createdAt = InitialTimeTicket THEN "CRDTObject"
  ELSE IF createdAt = TextCreatedAt THEN "CRDTText"
  ELSE "undefined"

\* StyleOperation.execute without the lookup of the parent.
StyleExecuteUnchecked(root, op, versionVector) ==
  With(SetStyle(root.text, <<op.fromPos, op.toPos>>, op.attributes, op.executedAt,
                versionVector), LAMBDA r :
    [ok |-> r.ok,
     code |-> IF r.ok THEN "" ELSE "InvalidArgument",
     root |-> RootWith(r.nodes, root.gcPairs, root.docSize + r.diff,
                       root.attrGarbage + r.replaced * AttrDataSize),
     opInfos |-> [i \in 1..Len(r.changes) |->
                    [type |-> "style", from |-> r.changes[i].from,
                     to |-> r.changes[i].to, value |-> op.attributes,
                     path |-> TextPath]],
     reverseOps |-> <<>>])

\* StyleOperation.execute: the parent is looked up by parentCreatedAt and
\* has to be a Text; then CRDTText.setStyle on the text and one opInfo per
\* change; the result carries no reverse operations.  code is the code of
\* the YorkieError thrown ("" when none is).
StyleExecute(root, op, versionVector) ==
  IF FindByCreatedAt(root, op.parentCreatedAt) # "CRDTText"
    THEN [ok |-> FALSE, code |-> "InvalidArgument", root |-> root,
          opInfos |-> <<>>, reverseOps |-> <<>>]
  ELSE
  With(SetStyle(root.text, <<op.fromPos, op.toPos>>, op.attributes, op.executedAt,
                versionVector), LAMBDA r :
    [ok |-> r.ok,
     code |-> IF r.ok THEN "" ELSE "InvalidArgument",
     \* root.acc(diff); root.registerGCPair(pair) for the replaced
     \* attributes
     root |-> RootWith(r.nodes, root.gcPairs, root.docSize + r.diff,
                       root.attrGarbage + r.replaced * AttrDataSize),
     opInfos |-> [i \in 1..Len(r.changes) |->
                    [type |-> "style", from |-> r.changes[i].from,
                     to |-> r.changes[i].to, value |-> op.attributes,
                     path |-> TextPath]],
     reverseOps |-> <<>>])

\* operation.execute(root, source, versionVector)
ExecuteOperation(root, op, versionVector) ==
  IF op.type = "edit" THEN EditExecute(root, op, versionVector)
  ELSE StyleExecute(root, op, versionVector)

\* A PresenceChange: Put with the presence object, Clear, or none.
PresenceChangeOf(type, presence) == [type |-> type, presence |-> presence]

NoPresenceChange == PresenceChangeOf("none", {})

\* Change.create: the id, the operations and the presence change.
ChangeWith(id, operations, presenceChange) ==
  [id |-> id, operations |-> operations, presenceChange |-> presenceChange]

\* A Change without presence change.
ChangeOf(id, operations) == ChangeWith(id, operations, NoPresenceChange)

\* Change.execute: the operations in order, each with the version vector of
\* the change; the reverse operations in reverse application order.  ok is
\* FALSE when an operation throws, root then holds what was done before.
RECURSIVE ExecuteFrom(_, _, _, _, _)
ExecuteFrom(root, change, i, opInfos, reverseOps) ==
  IF i > Len(change.operations)
    THEN [ok |-> TRUE, root |-> root, opInfos |-> opInfos, reverseOps |-> reverseOps]
  ELSE With(ExecuteOperation(root, change.operations[i], change.id.versionVector),
            LAMBDA r :
         IF ~r.ok
           THEN [ok |-> FALSE, root |-> r.root, opInfos |-> opInfos,
                 reverseOps |-> reverseOps]
           ELSE ExecuteFrom(r.root, change, i + 1, opInfos \o r.opInfos,
                            r.reverseOps \o reverseOps))

ChangeExecute(root, change) == ExecuteFrom(root, change, 1, <<>>, <<>>)

----------------------------------------------------------------------------
(* Document.                                                               *)

\* The clone of a document that has none.
NoClone == RootOf(<<>>, {})

Checkpoint(clientSeq, serverSeq) == [clientSeq |-> clientSeq, serverSeq |-> serverSeq]

\* A checkpoint that is replaced by the other one.
ForwardTo(checkpoint, other) == other

\* Checkpoint.forward
Forward(checkpoint, other) ==
  Checkpoint(Max2(checkpoint.clientSeq, other.clientSeq),
             Max2(checkpoint.serverSeq, other.serverSeq))

\* An entry of a presences map: whether the map has the actor, and the
\* presence object (a set of <<key, value>>).
PresenceOf(has, value) == [has |-> has, value |-> value]

NoPresence == PresenceOf(FALSE, {})

\* new Map(): no actor has a presence.
NoPresences == [a \in Actors |-> NoPresence]

\* new Document(key), attached as actor, its root holding the given text.
\* events holds the batches published by the last call, and observed what
\* a subscriber called with each of them reads of the document.  watchLog
\* holds the Initialized, Watched and Unwatched events published since the
\* document was made, in the order of their publication, and executed the
\* tickets of the operations that update, undo and redo have executed on
\* the root, in the order of their execution.
DocumentOf(actor, text) ==
  [root |-> RootOf(text, {}), hasClone |-> FALSE, clone |-> NoClone,
   changeID |-> InitialChangeIDOf(actor), checkpoint |-> Checkpoint(0, 0),
   localChanges |-> <<>>, undoStack |-> <<>>, redoStack |-> <<>>, events |-> <<>>,
   observed |-> <<>>, onlineClients |-> {}, target |-> NoTarget, delivered |-> <<>>,
   status |-> "attached", presences |-> NoPresences, clonePresences |-> NoPresences,
   maxSizeLimit |-> 0, schemaRules |-> <<>>, isUpdating |-> FALSE,
   watchLog |-> <<>>, executed |-> <<>>]

\* What a subscriber reads of the document when it is called.
Observed(d) ==
  [root |-> d.root, clone |-> d.clone, changeID |-> d.changeID,
   presences |-> d.presences, onlineClients |-> d.onlineClients]

\* elem.split('.'): the segments of the path between its dots, from the
\* i-th character on, after the segments and the segment read so far.
RECURSIVE SplitFrom(_, _, _, _)
SplitFrom(elem, i, segment, segments) ==
  IF i > Len(elem) THEN Append(segments, segment)
  ELSE IF elem[i] = "." THEN SplitFrom(elem, i + 1, <<>>, Append(segments, segment))
  ELSE SplitFrom(elem, i + 1, Append(segment, elem[i]), segments)

Split(elem) == SplitFrom(elem, 1, <<>>, <<>>)

\* isSameElementOrChildOf that compares the characters: elem starts with
\* parent.
StartsWith(elem, parent) ==
  /\ Len(parent) <= Len(elem)
  /\ SubSeq(elem, 1, Len(parent)) = parent

\* Document.isSameElementOrChildOf(elem, parent)
IsSameElementOrChildOf(elem, parent) ==
  IF parent = elem THEN TRUE
  ELSE With(Split(elem), LAMBDA nodePath :
       With(Split(parent), LAMBDA targetPath :
         \A index \in 1..Len(targetPath) :
           index <= Len(nodePath) /\ targetPath[index] = nodePath[index]))

\* The callback Document.subscribe(target, next) registers on the event
\* stream: the calls of next for a batch, each with the LocalChange or
\* RemoteChange event cut down to the operations of the target.
Delivered(target, batch) ==
  SelectSeq([j \in 1..Len(batch) |->
               IF batch[j].type \in {"local-change", "remote-change"}
                 THEN [batch[j] EXCEPT !.operations =
                         SelectSeq(@, LAMBDA op : IsSameElementOrChildOf(op.path, target))]
                 ELSE [batch[j] EXCEPT !.operations = <<>>]],
            LAMBDA docEvent : Len(docEvent.operations) > 0)

\* The events that tell who watches the document.
WatchTypes == {"initialized", "watched", "unwatched"}

\* Document.publish(events): the subscribers are called with the batch.
Publish(d, batch) ==
  [d EXCEPT !.events = Append(@, batch), !.observed = Append(@, Observed(d)),
            !.delivered = IF d.target = NoTarget THEN @
                          ELSE @ \o Delivered(d.target, batch),
            !.watchLog = @ \o SelectSeq(batch, LAMBDA docEvent :
                                          docEvent.type \in WatchTypes)]

\* Document.subscribe(target, next) with the path of an element.
DocSubscribe(d, target) ==
  [d EXCEPT !.events = <<>>, !.observed = <<>>, !.delivered = <<>>, !.target = target]

\* Document.ensureClone
EnsureClone(d) ==
  IF d.hasClone THEN d
  ELSE [d EXCEPT !.hasClone = TRUE, !.clone = RootDeepcopy(d.root),
                 !.clonePresences = d.presences]

\* The clone is kept.
KeepClone(d) == d

\* this.clone = undefined
DropClone(d) ==
  [d EXCEPT !.hasClone = FALSE, !.clone = NoClone, !.clonePresences = NoPresences]

\* The place of a node among the nodes of the text that have its id.
RankOf(nodes, p) == Cardinality({q \in 1..p : nodes[q].id = nodes[p].id})

\* The nodes of the clone that deepcopy made hold the value objects of the
\* root: what setAttr wrote into them through the clone is in the root too.
\* The copy of a node of the root is the node of the clone with its id, in
\* the same place among the nodes with that id; the value object the two
\* hold has one content (splitNode gives both parts new value objects).
Leak(root, clone) ==
  RootWith([p \in 1..Len(root.text) |->
            LET c == {q \in 1..Len(clone.text) :
                        /\ clone.text[q].shared
                        /\ clone.text[q].id = root.text[p].id
                        /\ clone.text[q].value.content = root.text[p].value.content
                        /\ RankOf(clone.text, q) = RankOf(root.text, p)}
            IN IF c = {} THEN root.text[p]
               ELSE [root.text[p] EXCEPT !.value = clone.text[CHOOSE q \in c : TRUE].value]],
         root.gcPairs, root.docSize, root.attrGarbage)

\* totalDocSize(root.getDocSize()): the live and the gc size of the root.
TotalDocSize(root) == root.docSize

\* A rule of the schema: the type the text of the root must have.
Rule(type) == [path |-> "$.text", type |-> type]

\* validateYorkieRuleset(root.getObject(), rules).valid
ValidateYorkieRuleset(root, rules) ==
  \A i \in 1..Len(rules) : rules[i].type = "yorkie.Text"

\* Change.execute on the presences: Put sets the presence of the actor of
\* the change, Clear deletes it.
ExecutePresence(presences, change) ==
  IF change.id.actor \notin Actors THEN presences
  ELSE IF change.presenceChange.type = "put"
    THEN [presences EXCEPT ![change.id.actor] =
            PresenceOf(TRUE, change.presenceChange.presence)]
  ELSE IF change.presenceChange.type = "clear"
    THEN [presences EXCEPT ![change.id.actor] = NoPresence]
  ELSE presences

\* presence.set(object): the keys of the object overwrite the ones of the
\* presence.
PresenceSet(presence, object) ==
  {kv \in presence : \A new \in object : new[1] # kv[1]} \cup object

\* A LocalChange, RemoteChange or PresenceChanged event: the actor and
\* clientSeq of the change and the operation infos.  value holds what a
\* Watched, an Unwatched or an Initialized event tells of the clients.
EventOf(type, change, opInfos) ==
  [type |-> type, actor |-> change.id.actor, clientSeq |-> change.id.clientSeq,
   operations |-> opInfos, value |-> {}]

\* A Snapshot or StatusChanged event.
PlainEvent(type) ==
  [type |-> type, actor |-> "none", clientSeq |-> -1, operations |-> <<>>,
   value |-> {}]

\* { clientID, presence } of a Watched, an Unwatched or an Initialized
\* event; a presence that is undefined is one the map has not.
ValueOf(clientID, presence) == [clientID |-> clientID, presence |-> presence]

\* A Watched or an Unwatched event.
WatchEvent(type, clientID, presence) ==
  [PlainEvent(type) EXCEPT !.actor = clientID,
                           !.value = {ValueOf(clientID, presence)}]

\* Document.getPresence(clientID): the own presence, and of another client
\* the presence the map has when the client is online, else undefined.
GetPresence(d, clientID) ==
  IF clientID = d.changeID.actor
    THEN PresenceOf(TRUE, d.presences[clientID].value)
  ELSE IF clientID \notin d.onlineClients THEN NoPresence
  ELSE d.presences[clientID]

\* The batch of events of a local change.
LocalBatch(change, opInfos) ==
  (IF Len(opInfos) > 0 THEN <<EventOf("local-change", change, opInfos)>> ELSE <<>>)
  \o (IF change.presenceChange # NoPresenceChange
        THEN <<EventOf("presence-changed", change, <<>>)>> ELSE <<>>)

\* What a call of the document gives: whether it threw and with which
\* code, the document after it, and the calls of undo and redo a mutator
\* made.
Thrown(code, doc) == [threw |-> TRUE, code |-> code, doc |-> doc, calls |-> <<>>]

Returned(doc) == [threw |-> FALSE, code |-> "", doc |-> doc, calls |-> <<>>]

\* Two documents hold the same state (events are what was published, not
\* state).
Same(d1, d2) ==
  [d1 EXCEPT !.events = <<>>, !.observed = <<>>, !.delivered = <<>>,
             !.watchLog = <<>>, !.executed = <<>>]
    = [d2 EXCEPT !.events = <<>>, !.observed = <<>>, !.delivered = <<>>,
                 !.watchLog = <<>>, !.executed = <<>>]

\* toChange that gives every change the id with clocks.
ToChangeWithClocks(prevID, nextID, operations, presenceChange) ==
  ChangeWith(nextID, operations, presenceChange)

\* ChangeContext.toChange: a context without operations gives the id
\* without clocks.
ToChange(prevID, nextID, operations, presenceChange) ==
  ChangeWith(IF Len(operations) = 0 THEN ChangeIDNext(prevID, TRUE) ELSE nextID,
             operations, presenceChange)

\* getNextID that always gives the id without clocks.
GetNextIDWithoutClocks(prevID, nextID, operations) ==
  [ChangeIDNext(prevID, TRUE) EXCEPT !.lamport = prevID.lamport,
                                     !.versionVector = prevID.versionVector]

\* ChangeContext.getNextID: of a context without operations, the id
\* without clocks, given lamport and version vector of the previous id.
GetNextID(prevID, nextID, operations) ==
  IF Len(operations) = 0
    THEN [ChangeIDNext(prevID, TRUE) EXCEPT !.lamport = prevID.lamport,
                                            !.versionVector = prevID.versionVector]
    ELSE nextID

\* issueTimeTicket that leaves the delimiter of the context as it is.
IssueTimeTicketOnce(nextID, delimiter) ==
  [delimiter |-> delimiter, ticket |-> CreateTimeTicket(nextID, delimiter + 1)]

\* ChangeContext.issueTimeTicket: the delimiter of the context goes up by
\* one, and the ticket is the one nextID creates with it.
IssueTimeTicket(nextID, delimiter) ==
  [delimiter |-> delimiter + 1, ticket |-> CreateTimeTicket(nextID, delimiter + 1)]

\* The keys of a presence object.
KeysOf(object) == {kv[1] : kv \in object}

\* ChangeContext.setReversePresence: the keys of the object are added to
\* the reverse presence keys when the call adds to the history, and taken
\* out of them when it does not.
SetReversePresence(reversePresenceKeys, object, addToHistory) ==
  IF addToHistory THEN reversePresenceKeys \cup KeysOf(object)
  ELSE reversePresenceKeys \ KeysOf(object)

\* The value a presence object has at a key, "undefined" when it has none.
ValueAt(object, key) ==
  IF \E kv \in object : kv[1] = key
    THEN (CHOOSE kv \in object : kv[1] = key)[2]
    ELSE "undefined"

\* ChangeContext.getReversePresence: nothing when there are no reverse
\* presence keys, else what the previous presence holds at each of them.
GetReversePresence(reversePresenceKeys, previousPresence) ==
  [has |-> reversePresenceKeys # {},
   value |-> {<<k, ValueAt(previousPresence, k)>> : k \in reversePresenceKeys}]

\* The entry of an undo or redo stack that restores a presence.
ReversePresenceOp(value) == [type |-> "presence", value |-> value]

\* The reverse operations without the reverse presence of the context.
WithoutReversePresence(reverseOps, reversePresence) == reverseOps

\* The reverse operations with the reverse presence of the context pushed
\* after them when there is one.
WithReversePresence(reverseOps, reversePresence) ==
  IF reversePresence.has
    THEN Append(reverseOps, ReversePresenceOp(reversePresence.value))
    ELSE reverseOps

\* What a ChangeContext holds: the operations pushed, the presence change,
\* the delimiter of the last ticket issued and the reverse presence keys.
\* ok is FALSE when building it threw.
ContextOf(operations, presenceChange, delimiter, reversePresenceKeys) ==
  [ok |-> TRUE, operations |-> operations, presenceChange |-> presenceChange,
   delimiter |-> delimiter, reversePresenceKeys |-> reversePresenceKeys]

\* new ChangeContext(prevID, root, presence)
NewContext == ContextOf(<<>>, NoPresenceChange, InitialDelimiter, {})

\* The tickets of the operations of a change.
ExecutedAts(operations) ==
  [i \in 1..Len(operations) |-> operations[i].executedAt]

\* The loop of undo and redo over the popped entries: a presence entry is
\* set, with addToHistory, on a copy of the presence the clone has of the
\* actor (which throws when it has none); an operation gets the ticket the
\* context issues for it and is pushed.
RECURSIVE Reissue(_, _, _, _, _)
Reissue(undoOps, i, nextID, presence, context) ==
  IF i > Len(undoOps) THEN context
  ELSE IF undoOps[i].type = "presence" THEN
    IF ~presence.has THEN [context EXCEPT !.ok = FALSE]
    ELSE Reissue(undoOps, i + 1, nextID, presence,
                 [context EXCEPT
                    !.presenceChange =
                       PresenceChangeOf("put", PresenceSet(presence.value, undoOps[i].value)),
                    !.reversePresenceKeys =
                       SetReversePresence(@, undoOps[i].value, TRUE)])
  ELSE With(IssueTimeTicket(nextID, context.delimiter), LAMBDA issued :
         Reissue(undoOps, i + 1, nextID, presence,
                 [context EXCEPT
                    !.delimiter = issued.delimiter,
                    !.operations = Append(@, [undoOps[i] EXCEPT
                                                !.executedAt = issued.ticket])]))

\* The part undo and redo share, once the operations are popped: the change
\* of the reissued operations is executed on clone and root, the reverse
\* operations go to the other stack (the redo stack when toRedo), and the
\* change is kept and published when it did something.
DocReplay(d, ops, toRedo) ==
  LET nextID == ChangeIDNext(d.changeID, FALSE)
      actor == d.changeID.actor
  IN
  With([EnsureClone(d) EXCEPT !.events = <<>>, !.observed = <<>>, !.delivered = <<>>], LAMBDA e :
  With(Reissue(ops, 1, nextID, e.clonePresences[actor], NewContext), LAMBDA context :
    IF ~context.ok THEN Thrown("TypeError", e)
    ELSE
  With(ToChange(e.changeID, nextID, context.operations, context.presenceChange),
       LAMBDA change :
  With(ChangeExecute(e.clone, change), LAMBDA c :
  With(Leak(e.root, c.root), LAMBDA leaked :
    IF ~c.ok
      THEN Thrown("InvalidArgument", [e EXCEPT !.clone = c.root, !.root = leaked])
    ELSE
  With(ChangeExecute(leaked, change), LAMBDA x :
    IF ~x.ok
      THEN Thrown("InvalidArgument",
                  [e EXCEPT !.clone = c.root, !.root = x.root,
                            !.clonePresences = ExecutePresence(@, change)])
    ELSE
  With(WithReversePresence(x.reverseOps,
                           GetReversePresence(context.reversePresenceKeys,
                                              e.clonePresences[actor].value)),
       LAMBDA reverseOps :
  With([e EXCEPT !.clone = c.root, !.root = x.root,
                 !.executed = @ \o ExecutedAts(change.operations),
                 !.clonePresences = ExecutePresence(@, change),
                 !.presences = ExecutePresence(@, change),
                 !.redoStack = IF toRedo /\ Len(reverseOps) > 0
                                 THEN Append(@, reverseOps) ELSE @,
                 !.undoStack = IF ~toRedo /\ Len(reverseOps) > 0
                                 THEN Append(@, reverseOps) ELSE @], LAMBDA done :
    IF change.presenceChange = NoPresenceChange /\ Len(x.opInfos) = 0
      THEN Returned(done)
    ELSE Returned(Publish([done EXCEPT
                             !.localChanges = Append(@, change),
                             !.changeID = GetNextID(e.changeID, nextID,
                                                    context.operations)],
                          LocalBatch(change, x.opInfos)))))))))))

\* Document.undo.  threw tells whether it throws (Refused, or an operation
\* that fails).
DocUndo(d) ==
  IF d.isUpdating THEN Thrown("Refused", [d EXCEPT !.events = <<>>, !.observed = <<>>, !.delivered = <<>>])
  ELSE IF Len(d.undoStack) = 0 THEN Thrown("Refused", [d EXCEPT !.events = <<>>, !.observed = <<>>, !.delivered = <<>>])
  ELSE DocReplay([d EXCEPT !.undoStack = SubSeq(@, 1, Len(@) - 1)],
                 d.undoStack[Len(d.undoStack)], TRUE)

\* Document.redo
DocRedo(d) ==
  IF d.isUpdating THEN Thrown("Refused", [d EXCEPT !.events = <<>>, !.observed = <<>>, !.delivered = <<>>])
  ELSE IF Len(d.redoStack) = 0 THEN Thrown("Refused", [d EXCEPT !.events = <<>>, !.observed = <<>>, !.delivered = <<>>])
  ELSE DocReplay([d EXCEPT !.redoStack = SubSeq(@, 1, Len(@) - 1)],
                 d.redoStack[Len(d.redoStack)], FALSE)

\* A call a mutator makes: edit(from, to, content) or setStyle(from, to,
\* attributes) on the Text proxy, presence.set(presence), history.undo(),
\* history.redo(), or doc.update with a mutator that makes the inner calls.
StepOf(type, from, to, content, attributes, presence, inner) ==
  [type |-> type, from |-> from, to |-> to, content |-> content,
   attributes |-> attributes, presence |-> presence, inner |-> inner]

\* A mutator: the calls it makes one after the other, and whether it
\* throws after them.
MutatorOf(ops, throws) == [ops |-> ops, throws |-> throws]

\* What the run of a mutator has come to: the document, the operations
\* pushed to the context, the presence change set in it, and the calls of
\* undo and redo made so far; of the context also the delimiter and the
\* reverse presence keys, which are the ones of a new context when no
\* operation is pushed yet.
RunOf(ok, code, doc, operations, presenceChange, calls) ==
  [ok |-> ok, code |-> code, doc |-> doc, operations |-> operations,
   presenceChange |-> presenceChange, calls |-> calls,
   delimiter |-> InitialDelimiter + Len(operations), reversePresenceKeys |-> {}]

\* A call of undo or redo a mutator made: whether the document was
\* updating, whether it was refused, whether it left the document as it was.
InnerCall(call, updating, refused, same) ==
  [call |-> call, updating |-> updating, refused |-> refused, same |-> same]

RECURSIVE DocUpdate(_, _)

\* The previous presence of the context of update, undo and redo: a copy of
\* the presence the clone has of the actor, or of {} when it has none.
PreviousPresence(d) == d.clonePresences[d.changeID.actor].value

\* The mutator of an update, run against the proxy over the clone and the
\* Presence of the context: an operation of the proxy gets the next ticket,
\* is applied to the text of the clone and pushed to the context;
\* presence.set writes the presence of the clone and sets the presence
\* change, presence.clear sets the presence change Clear; undo, redo and
\* update are the calls of the document.  ok is
\* FALSE when a call throws: the mutator does not catch.
RECURSIVE RunMutator(_, _, _, _, _)
RunMutator(d, steps, i, nextID, run) ==
  IF i > Len(steps) THEN [run EXCEPT !.doc = d]
  ELSE
    LET in == steps[i]
        actor == d.changeID.actor
        issued == IssueTimeTicket(nextID, run.delimiter)
    IN
    \* presence.set(object), or ("presence-history")
    \* presence.set(object, {addToHistory: true})
    IF in.type \in {"presence", "presence-history"} THEN
      With(PresenceSet(d.clonePresences[actor].value, in.presence), LAMBDA presence :
        RunMutator([d EXCEPT !.clonePresences[actor] = PresenceOf(TRUE, presence)],
                   steps, i + 1, nextID,
                   [run EXCEPT
                      !.presenceChange = PresenceChangeOf("put", presence),
                      !.reversePresenceKeys =
                         SetReversePresence(@, in.presence,
                                            in.type = "presence-history")]))
    ELSE IF in.type = "clear" THEN
      RunMutator(d, steps, i + 1, nextID,
                 [run EXCEPT !.presenceChange = PresenceChangeOf("clear", {})])
    ELSE IF in.type \in {"undo", "redo"} THEN
      With(IF in.type = "undo" THEN DocUndo(d) ELSE DocRedo(d), LAMBDA r :
      With(Append(run.calls,
                  InnerCall(in.type, d.isUpdating, r.threw /\ r.code = "Refused",
                            Same(r.doc, d))), LAMBDA calls :
        IF r.threw
          THEN [run EXCEPT !.ok = FALSE, !.code = r.code, !.doc = r.doc, !.calls = calls]
          ELSE RunMutator(r.doc, steps, i + 1, nextID, [run EXCEPT !.calls = calls])))
    ELSE IF in.type = "update" THEN
      With(DocUpdate(d, MutatorOf(in.inner, FALSE)), LAMBDA r :
        IF r.threw
          THEN [run EXCEPT !.ok = FALSE, !.code = r.code, !.doc = r.doc,
                           !.calls = @ \o r.calls]
          ELSE RunMutator(r.doc, steps, i + 1, nextID,
                          [run EXCEPT !.calls = @ \o r.calls]))
    ELSE
      With(IndexRangeToPosRange(d.clone.text, in.from, in.to), LAMBDA range :
        IF ~range.ok THEN [run EXCEPT !.ok = FALSE, !.code = "InvalidArgument", !.doc = d]
        ELSE
      With(Operation(in.type, range.range[1], range.range[2], in.content,
                     in.attributes, issued.ticket), LAMBDA op :
      With(ExecuteOperation(d.clone, op, NoVV), LAMBDA r :
        IF ~r.ok
          THEN [run EXCEPT !.ok = FALSE, !.code = "InvalidArgument",
                           !.delimiter = issued.delimiter,
                           !.doc = [d EXCEPT !.clone = r.root]]
          ELSE RunMutator([d EXCEPT !.clone = r.root], steps, i + 1, nextID,
                          [run EXCEPT !.delimiter = issued.delimiter,
                                      !.operations = Append(@, op)]))))

\* hasChange that holds of every context.
HasChangeAlways(operations, presenceChange) == TRUE

\* ChangeContext.hasChange
HasChange(operations, presenceChange) ==
  Len(operations) > 0 \/ presenceChange # NoPresenceChange

\* Document.update(updater) with a mutator that makes the given calls and
\* then throws or returns.  threw tells whether update throws.
DocUpdate(d, mutator) ==
  IF d.status = "removed" THEN Thrown("DocumentRemoved", [d EXCEPT !.events = <<>>, !.observed = <<>>, !.delivered = <<>>])
  ELSE
  \* 01. Update the clone object and create a change.
  With([EnsureClone(d) EXCEPT !.events = <<>>, !.observed = <<>>, !.delivered = <<>>], LAMBDA e :
  With(ChangeIDNext(e.changeID, FALSE), LAMBDA nextID :
  With(RunMutator([e EXCEPT !.isUpdating = TRUE,
                            !.clonePresences[e.changeID.actor] =
                               IF e.presences[e.changeID.actor].has THEN @
                               ELSE PresenceOf(TRUE, {})],
                  mutator.ops, 1, nextID,
                  RunOf(TRUE, "", e, <<>>, NoPresenceChange, <<>>)), LAMBDA ran :
  With([ran.doc EXCEPT !.isUpdating = FALSE,
                       !.root = Leak(ran.doc.root, ran.doc.clone)], LAMBDA m :
    IF ~ran.ok \/ mutator.throws
      THEN [Thrown(IF ran.ok THEN "Error" ELSE ran.code, DropClone(m))
              EXCEPT !.calls = ran.calls]
    ELSE IF Len(ran.operations) > 0 /\ Len(m.schemaRules) > 0
            /\ ~ValidateYorkieRuleset(m.clone, m.schemaRules)
      THEN [Thrown("SchemaValidationFailed", DropClone(m)) EXCEPT !.calls = ran.calls]
    ELSE IF Len(ran.operations) > 0 /\ m.maxSizeLimit > 0
            /\ m.maxSizeLimit < TotalDocSize(m.clone)
      THEN [Thrown("SizeExceedsLimit", DropClone(m)) EXCEPT !.calls = ran.calls]
    \* 02. Update the root object and presences from changes.
    ELSE IF ~HasChange(ran.operations, ran.presenceChange)
      THEN [Returned(m) EXCEPT !.calls = ran.calls]
    ELSE
  With(ToChange(e.changeID, nextID, ran.operations, ran.presenceChange), LAMBDA change :
  With(ChangeExecute(m.root, change), LAMBDA x :
    IF ~x.ok
      THEN [Thrown("InvalidArgument", [m EXCEPT !.root = x.root])
              EXCEPT !.calls = ran.calls]
      ELSE
  With(WithReversePresence(x.reverseOps,
                           GetReversePresence(ran.reversePresenceKeys,
                                              PreviousPresence(e))),
       LAMBDA reverseOps :
           [Returned(
              \* 03. Publish the document change event.
              Publish([m EXCEPT
                         !.root = x.root,
                         !.executed = @ \o ExecutedAts(change.operations),
                         !.presences = ExecutePresence(@, change),
                         !.localChanges = Append(@, change),
                         !.undoStack = IF Len(reverseOps) > 0
                                         THEN Append(@, reverseOps) ELSE @,
                         !.redoStack = IF Len(x.opInfos) > 0 THEN <<>> ELSE @,
                         !.changeID = GetNextID(e.changeID, nextID, ran.operations)],
                      LocalBatch(change, x.opInfos)))
              EXCEPT !.calls = ran.calls])))))))

\* The presence events of applyChange when every Put of a client that is
\* online is PresenceChanged.
PresenceEventsChanged(d, change) ==
  IF change.presenceChange = NoPresenceChange
       \/ change.id.actor \notin d.onlineClients
    THEN <<>>
  ELSE IF change.presenceChange.type = "put"
    THEN <<EventOf("presence-changed", change, <<>>)>>
  ELSE IF change.presenceChange.type = "clear"
    THEN <<EventOf("unwatched", change, <<>>)>>
  ELSE <<>>

\* The events applyChange pushes for the presence change of a change, and
\* the online clients it leaves: for a client that is online, Put is
\* PresenceChanged when the document has a presence of the client and
\* Watched when it has none, Clear is Unwatched and takes the client out of
\* the online clients.
PresenceEvents(d, change) ==
  IF change.presenceChange = NoPresenceChange
       \/ change.id.actor \notin d.onlineClients
    THEN <<>>
  ELSE IF change.presenceChange.type = "put"
    THEN <<[EventOf(IF d.presences[change.id.actor].has THEN "presence-changed"
                    ELSE "watched", change, <<>>)
              EXCEPT !.value = {ValueOf(change.id.actor,
                                        PresenceOf(TRUE, change.presenceChange.presence))}]>>
  ELSE IF change.presenceChange.type = "clear"
    THEN <<[EventOf("unwatched", change, <<>>)
              EXCEPT !.value = {ValueOf(change.id.actor,
                                        GetPresence(d, change.id.actor))}]>>
  ELSE <<>>

OnlineAfter(d, change) ==
  IF change.presenceChange # NoPresenceChange
       /\ change.id.actor \in d.onlineClients
       /\ change.presenceChange.type = "clear"
    THEN d.onlineClients \ {change.id.actor}
    ELSE d.onlineClients

\* The RemoteChange or LocalChange event of a change that has operation
\* infos.
ChangeEvents(change, source, opInfos) ==
  IF Len(opInfos) > 0
    THEN <<EventOf(IF source = "remote" THEN "remote-change" ELSE "local-change",
                   change, opInfos)>>
    ELSE <<>>

\* if (event.length > 0) this.publish(event)
PublishIf(d, batch) == IF Len(batch) > 0 THEN Publish(d, batch) ELSE d

\* applyChange that leaves the clocks of the document as they are.
DocApplyChangeUnsynced(d, change, source) ==
  With(EnsureClone(d), LAMBDA e :
  With(ChangeExecute(e.clone, change), LAMBDA c :
  With(Leak(e.root, c.root), LAMBDA leaked :
    IF ~c.ok
      THEN [ok |-> FALSE, doc |-> [e EXCEPT !.clone = c.root, !.root = leaked]]
    ELSE
  With(ChangeExecute(leaked, change), LAMBDA x :
    IF ~x.ok
      THEN [ok |-> FALSE,
            doc |-> [e EXCEPT !.clone = c.root, !.root = x.root,
                              !.onlineClients = OnlineAfter(e, change)]]
    ELSE [ok |-> TRUE,
          doc |-> PublishIf([e EXCEPT
                     !.clone = c.root,
                     !.clonePresences = ExecutePresence(@, change),
                     !.onlineClients = OnlineAfter(e, change),
                     !.root = x.root,
                     !.presences = ExecutePresence(@, change)],
                   PresenceEvents(e, change)
                     \o ChangeEvents(change, source, x.opInfos))]))))

\* applyChange that publishes its batch before it syncs the clocks.
DocApplyChangeEarly(d, change, source) ==
  With(EnsureClone(d), LAMBDA e :
  With(ChangeExecute(e.clone, change), LAMBDA c :
  With(Leak(e.root, c.root), LAMBDA leaked :
    IF ~c.ok
      THEN [ok |-> FALSE, doc |-> [e EXCEPT !.clone = c.root, !.root = leaked]]
    ELSE
  With(ChangeExecute(leaked, change), LAMBDA x :
    IF ~x.ok
      THEN [ok |-> FALSE,
            doc |-> [e EXCEPT !.clone = c.root, !.root = x.root,
                              !.onlineClients = OnlineAfter(e, change)]]
    ELSE [ok |-> TRUE,
          doc |-> [PublishIf([e EXCEPT
                     !.clone = c.root,
                     !.clonePresences = ExecutePresence(@, change),
                     !.onlineClients = OnlineAfter(e, change),
                     !.root = x.root,
                     !.presences = ExecutePresence(@, change)],
                   PresenceEvents(e, change)
                     \o ChangeEvents(change, source, x.opInfos))
                   EXCEPT !.changeID = SyncClocks(@, change.id)]]))))

\* Document.applyChange(change, source).  ok is FALSE when the change
\* throws on the clone or on the root.
DocApplyChange(d, change, source) ==
  With(EnsureClone(d), LAMBDA e :
  With(ChangeExecute(e.clone, change), LAMBDA c :
  With(Leak(e.root, c.root), LAMBDA leaked :
    IF ~c.ok
      THEN [ok |-> FALSE, doc |-> [e EXCEPT !.clone = c.root, !.root = leaked]]
    ELSE
  With(ChangeExecute(leaked, change), LAMBDA x :
    IF ~x.ok
      THEN [ok |-> FALSE,
            doc |-> [e EXCEPT !.clone = c.root, !.root = x.root,
                              !.onlineClients = OnlineAfter(e, change)]]
    ELSE [ok |-> TRUE,
          doc |-> PublishIf([e EXCEPT
                     !.clone = c.root,
                     !.clonePresences = ExecutePresence(@, change),
                     !.onlineClients = OnlineAfter(e, change),
                     !.root = x.root,
                     !.presences = ExecutePresence(@, change),
                     !.changeID = SyncClocks(@, change.id)],
                   PresenceEvents(e, change)
                     \o ChangeEvents(change, source, x.opInfos))]))))

\* Document.applyChanges: the changes in order, up to one that throws.
RECURSIVE DocApplyChanges(_, _, _, _)
DocApplyChanges(d, changes, i, source) ==
  IF i > Len(changes) THEN [ok |-> TRUE, doc |-> d]
  ELSE With(DocApplyChange(d, changes[i], source), LAMBDA r :
         IF ~r.ok THEN r ELSE DocApplyChanges(r.doc, changes, i + 1, source))

\* removePushedLocalChanges that keeps the change with the given clientSeq.
RECURSIVE RemovePushedLocalChangesBelow(_, _)
RemovePushedLocalChangesBelow(localChanges, clientSeq) ==
  IF Len(localChanges) = 0 THEN localChanges
  ELSE IF localChanges[1].id.clientSeq >= clientSeq THEN localChanges
  ELSE RemovePushedLocalChangesBelow(Tail(localChanges), clientSeq)

\* removePushedLocalChanges with an if in place of the while: it drops the
\* first local change at most.
RemovePushedLocalChangesOnce(localChanges, clientSeq) ==
  IF Len(localChanges) = 0 THEN localChanges
  ELSE IF localChanges[1].id.clientSeq > clientSeq THEN localChanges
  ELSE Tail(localChanges)

\* Document.removePushedLocalChanges
RECURSIVE RemovePushedLocalChanges(_, _)
RemovePushedLocalChanges(localChanges, clientSeq) ==
  IF Len(localChanges) = 0 THEN localChanges
  ELSE IF localChanges[1].id.clientSeq > clientSeq THEN localChanges
  ELSE RemovePushedLocalChanges(Tail(localChanges), clientSeq)

\* garbageCollect that purges what the document itself has seen removed.
DocGarbageCollectSeen(d, minSyncedVersionVector) ==
  [d EXCEPT
     !.clone = IF d.hasClone THEN RootGarbageCollect(@, d.changeID.versionVector) ELSE @,
     !.root = RootGarbageCollect(@, d.changeID.versionVector)]

\* Document.garbageCollect(minSyncedVersionVector)
DocGarbageCollect(d, minSyncedVersionVector) ==
  [d EXCEPT
     !.clone = IF d.hasClone THEN RootGarbageCollect(@, minSyncedVersionVector) ELSE @,
     !.root = RootGarbageCollect(@, minSyncedVersionVector)]

\* ChangePack.create: the checkpoint, whether the document is removed, the
\* changes, the version vector and the snapshot (hasSnapshot tells whether
\* there is one: a root and the presences).
PackOf(checkpoint, isRemoved, changes, versionVector, hasSnapshot, snapshot) ==
  [checkpoint |-> checkpoint, isRemoved |-> isRemoved, changes |-> changes,
   versionVector |-> versionVector, hasSnapshot |-> hasSnapshot, snapshot |-> snapshot]

\* What a snapshot holds: the root and the presences.
SnapshotOf(root, presences) == [root |-> root, presences |-> presences]

NoSnapshot == SnapshotOf(NoClone, NoPresences)

\* A ChangePack without snapshot of a document that is not removed.
ChangePackOf(checkpoint, changes, versionVector) ==
  PackOf(checkpoint, FALSE, changes, versionVector, FALSE, NoSnapshot)

\* Document.createChangePack
CreateChangePack(d) ==
  ChangePackOf(Checkpoint(d.checkpoint.clientSeq + Len(d.localChanges),
                          d.checkpoint.serverSeq),
               d.localChanges, d.changeID.versionVector)

\* applyStatus that sets the status Detached alone.
DocApplyStatusDetached(d, status) ==
  With(IF status = "detached" THEN [d EXCEPT !.status = status] ELSE d, LAMBDA s :
  With(IF status = "detached"
         THEN [s EXCEPT
                 !.localChanges = [i \in 1..Len(@) |->
                                     [@[i] EXCEPT !.id = SetActor(@, InitialActorID)]],
                 !.changeID = SetActor(@, InitialActorID)]
         ELSE s, LAMBDA t :
    Publish(t, <<PlainEvent("status-changed")>>)))

\* Document.applyStatus(status): a detached document gets the initial
\* actor, in its changeID and in its local changes.
DocApplyStatus(d, status) ==
  With([d EXCEPT !.status = status], LAMBDA s :
  With(IF status = "detached"
         THEN [s EXCEPT
                 !.localChanges = [i \in 1..Len(@) |->
                                     [@[i] EXCEPT !.id = SetActor(@, InitialActorID)]],
                 !.changeID = SetActor(@, InitialActorID)]
         ELSE s, LAMBDA t :
    Publish(t, <<PlainEvent("status-changed")>>)))

\* Document.applyWatchStream of the event DOCUMENT_WATCHED: the publisher
\* is online; Watched is published when the document has its presence.
DocWatched(d, publisher) ==
  IF publisher \in d.onlineClients /\ d.presences[publisher].has
    THEN [d EXCEPT !.events = <<>>, !.observed = <<>>, !.delivered = <<>>]
  ELSE
    With([d EXCEPT !.events = <<>>, !.observed = <<>>, !.delivered = <<>>,
                   !.onlineClients = @ \cup {publisher}], LAMBDA w :
      PublishIf(w, IF w.presences[publisher].has
                     THEN <<WatchEvent("watched", publisher,
                                       GetPresence(w, publisher))>>
                     ELSE <<>>))

\* Document.getPresences(): the own presence and the presences of the
\* online clients the map has.
GetPresences(d) ==
  {ValueOf(d.changeID.actor, GetPresence(d, d.changeID.actor))}
  \cup {ValueOf(clientID, d.presences[clientID]) :
          clientID \in {c \in d.onlineClients \cap Actors : d.presences[c].has}}

\* Document.applyWatchStream of the initialization: the clients of the
\* response but the own one are the online clients, and Initialized is
\* published with the presences.
DocInitialized(d, clientIDs) ==
  With([d EXCEPT !.events = <<>>, !.observed = <<>>, !.delivered = <<>>,
                 !.onlineClients = clientIDs \ {d.changeID.actor}], LAMBDA w :
    Publish(w, <<[PlainEvent("initialized") EXCEPT !.value = GetPresences(w)]>>))

\* Document.applyWatchStream of the event DOCUMENT_UNWATCHED: the publisher
\* is no longer online; Unwatched is published with the presence
\* getPresence gave before, when it gave one.
DocUnwatched(d, publisher) ==
  With(GetPresence(d, publisher), LAMBDA presence :
  With([d EXCEPT !.events = <<>>, !.observed = <<>>, !.delivered = <<>>,
                 !.onlineClients = @ \ {publisher}], LAMBDA w :
    PublishIf(w, IF presence.has
                   THEN <<WatchEvent("unwatched", publisher, presence)>>
                   ELSE <<>>)))

\* A WatchDocumentResponse: the initialization with the ids of the clients
\* that watch, or an event with its type and publisher.
Response(case, type, publisher, clientIDs) ==
  [case |-> case, type |-> type, publisher |-> publisher, clientIDs |-> clientIDs]

\* Document.applyWatchStream(resp)
DocApplyWatchStream(d, resp) ==
  IF resp.case = "initialization" THEN DocInitialized(d, resp.clientIDs)
  ELSE IF resp.type = "DOCUMENT_WATCHED" THEN DocWatched(d, resp.publisher)
  ELSE IF resp.type = "DOCUMENT_UNWATCHED" THEN DocUnwatched(d, resp.publisher)
  ELSE [d EXCEPT !.events = <<>>, !.observed = <<>>, !.delivered = <<>>]

\* converter.bytesToSnapshot(snapshot): the text built anew from the nodes
\* of the snapshot, none of its values shared with another root.
BytesToSnapshot(snapshot) ==
  With(Deepcopy(snapshot.root.text), LAMBDA text :
    SnapshotOf(RootOf([p \in 1..Len(text) |-> [text[p] EXCEPT !.shared = FALSE]],
                      GetGCPairs(text)),
               snapshot.presences))

\* Document.applySnapshot(serverSeq, snapshotVector, snapshot, clientSeq).
\* tick is what ChangeID.setClocks adds to the greater lamport.
DocApplySnapshot(d, serverSeq, snapshotVector, snapshot, clientSeq, tick) ==
  With(BytesToSnapshot(snapshot), LAMBDA decoded :
  With(DropClone([d EXCEPT
         !.root = decoded.root,
         !.presences = decoded.presences,
         !.changeID = SetClocks(@, VVMaxLamport(snapshotVector), snapshotVector, tick),
         !.localChanges = RemovePushedLocalChanges(@, clientSeq)]), LAMBDA s :
  With(DocApplyChanges(s, s.localChanges, 1, "local"), LAMBDA r :
    IF ~r.ok THEN r
    ELSE [ok |-> TRUE, doc |-> Publish(r.doc, <<PlainEvent("snapshot")>>)])))

\* applyChangePack that collects garbage with the version vector of the
\* document in place of the one of the pack.
DocApplyChangePackOwn(d, pack, tick) ==
  With(IF pack.hasSnapshot
         THEN DocApplySnapshot([d EXCEPT !.events = <<>>, !.observed = <<>>, !.delivered = <<>>], pack.checkpoint.serverSeq,
                               pack.versionVector, pack.snapshot,
                               pack.checkpoint.clientSeq, tick)
         ELSE DocApplyChanges([d EXCEPT !.events = <<>>, !.observed = <<>>, !.delivered = <<>>], pack.changes, 1, "remote"),
       LAMBDA r :
    IF ~r.ok THEN r
    ELSE
  With([r.doc EXCEPT
          !.localChanges = IF pack.hasSnapshot THEN @
                           ELSE RemovePushedLocalChanges(@, pack.checkpoint.clientSeq),
          !.checkpoint = Forward(@, pack.checkpoint)], LAMBDA dropped :
  With(IF pack.hasSnapshot THEN dropped
       ELSE DocGarbageCollect(dropped, dropped.changeID.versionVector), LAMBDA collected :
    [ok |-> TRUE,
     doc |-> IF pack.isRemoved THEN DocApplyStatus(collected, "removed")
             ELSE collected])))

\* Document.applyChangePack(pack).  ok is FALSE when a change throws: the
\* rest of the call is not run.  tick is what ChangeID.setClocks adds when
\* the pack holds a snapshot.
DocApplyChangePack(d, pack, tick) ==
  \* 01. Apply snapshot or changes to the root object.
  With(IF pack.hasSnapshot
         THEN DocApplySnapshot([d EXCEPT !.events = <<>>, !.observed = <<>>, !.delivered = <<>>], pack.checkpoint.serverSeq,
                               pack.versionVector, pack.snapshot,
                               pack.checkpoint.clientSeq, tick)
         ELSE DocApplyChanges([d EXCEPT !.events = <<>>, !.observed = <<>>, !.delivered = <<>>], pack.changes, 1, "remote"),
       LAMBDA r :
    IF ~r.ok THEN r
    ELSE
  \* 02. Update the checkpoint.
  With([r.doc EXCEPT
          !.localChanges = IF pack.hasSnapshot THEN @
                           ELSE RemovePushedLocalChanges(@, pack.checkpoint.clientSeq),
          !.checkpoint = Forward(@, pack.checkpoint)], LAMBDA dropped :
  \* 03. Do Garbage collection.
  With(IF pack.hasSnapshot THEN dropped
       ELSE DocGarbageCollect(dropped, pack.versionVector), LAMBDA collected :
  \* 04. Update the status.
    [ok |-> TRUE,
     doc |-> IF pack.isRemoved THEN DocApplyStatus(collected, "removed")
             ELSE collected])))

----------------------------------------------------------------------------
(* The server of the push-pull protocol, as the documents see it.          *)

\* The server's log of the pushed changes, the version vector each client
\* sent with its last pack, whether the document is removed, and the
\* number of snapshots it has answered with.
ServerOf(changes, reported) ==
  [changes |-> changes, reported |-> reported, removed |-> FALSE, snapshots |-> 0]

\* The pointwise minimum of the version vectors of all clients.
MinSyncedVersionVector(reported) ==
  [x \in Actors |->
     CHOOSE m \in {reported[c][x] : c \in Actors} :
       \A c \in Actors : m <= reported[c][x]]

\* The server takes the pack of a client: the log with the changes of the
\* pack appended.
PushPack(s, actor, pack) ==
  [s EXCEPT !.changes = @ \o pack.changes,
            !.reported[actor] = pack.versionVector,
            !.removed = @ \/ pack.isRemoved]

\* The changes of the others in the log behind serverSeq.
RECURSIVE PulledFrom(_, _, _)
PulledFrom(changes, actor, i) ==
  IF i > Len(changes) THEN <<>>
  ELSE (IF changes[i].id.actor = actor THEN <<>> ELSE <<changes[i]>>)
       \o PulledFrom(changes, actor, i + 1)

\* The pack the server answers with: the changes the client has not pulled,
\* the checkpoint that acknowledges the pushed changes, and the minimum
\* synced version vector.
ResponsePack(s, actor, pack, serverSeq) ==
  PackOf(Checkpoint(pack.checkpoint.clientSeq, Len(s.changes)), s.removed,
         PulledFrom(s.changes, actor, serverSeq + 1),
         MinSyncedVersionVector(s.reported), FALSE, NoSnapshot)

\* The document of the server: the changes of the log executed in order on
\* a new root, and the presences they put.
RECURSIVE ServerSnapshot(_, _, _)
ServerSnapshot(changes, i, snapshot) ==
  IF i > Len(changes) THEN snapshot
  ELSE ServerSnapshot(changes, i + 1,
                      SnapshotOf(ChangeExecute(snapshot.root, changes[i]).root,
                                 ExecutePresence(snapshot.presences, changes[i])))

\* The version vector of the document of the server: the greatest clock
\* of every actor in the changes of the log.
RECURSIVE ServerVector(_, _)
ServerVector(changes, i) ==
  IF i > Len(changes) THEN EmptyVV
  ELSE VVMax(changes[i].id.versionVector, ServerVector(changes, i + 1))

\* The pack the server answers with when it sends a snapshot in place of
\* the changes: its document and the version vector of it.
SnapshotPack(s, actor, pack) ==
  PackOf(Checkpoint(pack.checkpoint.clientSeq, Len(s.changes)), s.removed, <<>>,
         ServerVector(s.changes, 1), TRUE,
         ServerSnapshot(s.changes, 1,
                        SnapshotOf(RootOf(RGATreeSplitCreate, {}), NoPresences)))

\* No pack in flight.
NoPack == ChangePackOf(Checkpoint(-1, -1), <<>>, NoVV)

----------------------------------------------------------------------------
(* The state: the documents of the two clients, the server, the response   *)
(* in flight to each client, the number of calls left, what each client   *)
(* types, and a record of the last call.                                  *)

VARIABLES doc, server, inflight, quota, typing, last

vars == <<doc, server, inflight, quota, typing, last>>

\* The largest number of local calls (update, undo) in a behaviour.
MaxCalls == 3

\* The number of calls of each client where two changes are compared.
PairCalls == 1

\* The number of direct calls of garbageCollect in a behaviour.
MaxCollects == 1

\* The number of answers with a snapshot in a behaviour.
MaxSnapshots == 1

\* quota: the local calls left in all, the ones left to each client, and
\* the direct calls of garbageCollect left.
QuotaOf(total, each, collect) == [total |-> total, each |-> each, collect |-> collect]

\* typing: the letters a client types and the kinds of calls it makes.
InputOf(content, kinds) == [content |-> content, kinds |-> kinds]

Kinds == {"insert", "delete", "replace", "style"}

\* The contents a client gives an edit: nothing, or its letters.
Contents(a) == {<<>>, typing[a].content}

\* The value a client gives the attribute.
StyleValue(a) == IF a = "A" THEN "1" ELSE "2"

\* The calls of the Text proxy a mutator makes on a text of the given
\* length: edit(from, to, content) and setStyle(from, to, attributes).
OpInputs(a, length) ==
  {StepOf("edit", f, t, c, {}, {}, <<>>) :
     f \in 0..length, t \in 0..length, c \in Contents(a)}
  \cup {StepOf("style", f, t, <<>>, {<<"b", StyleValue(a)>>}, {}, <<>>) :
          f \in 0..length, t \in 0..length}

\* The calls that change something: an edit that inserts or deletes, a
\* style over a range that is not empty.
ValidInput(in) ==
  /\ in.from <= in.to
  /\ in.type = "style" => in.from < in.to
  /\ in.type = "edit" => (in.content # <<>> \/ in.from < in.to)

\* The kind of a call of the proxy.
KindOf(in) ==
  IF in.type = "style" THEN "style"
  ELSE IF in.from = in.to THEN "insert"
  ELSE IF in.content = <<>> THEN "delete"
  ELSE "replace"

\* presence.set({cursor: ...}) of a client.
PresenceStep(a) ==
  StepOf("presence", 0, 0, <<>>, {}, {<<"cursor", StyleValue(a)>>}, <<>>)

\* presence.clear()
ClearStep == StepOf("clear", 0, 0, <<>>, {}, {}, <<>>)

\* The client puts its letters in front of the text.
InsertStep(a) == StepOf("edit", 0, 0, typing[a].content, {}, {}, <<>>)

\* doc.history.undo() or doc.history.redo() called by a mutator.
HistoryStep(type) == StepOf(type, 0, 0, <<>>, {}, {}, <<>>)

\* doc.update called by a mutator, with a mutator that makes the inner
\* calls.
NestedStep(inner) == StepOf("update", 0, 0, <<>>, {}, {}, inner)

\* The mutators that set the presence: alone (and return or throw), or
\* after an insert.
PresenceMutators(a) ==
  {MutatorOf(<<PresenceStep(a)>>, t) : t \in BOOLEAN}
  \cup {MutatorOf(<<InsertStep(a), PresenceStep(a)>>, FALSE)}

\* The mutators that call the document: undo or redo at once, after an
\* insert, or after a nested update that has returned; a nested update
\* alone.
HistoryMutators(a) ==
  {MutatorOf(<<HistoryStep(c)>>, FALSE) : c \in {"undo", "redo"}}
  \cup {MutatorOf(<<InsertStep(a), HistoryStep(c)>>, FALSE) : c \in {"undo", "redo"}}
  \cup {MutatorOf(<<NestedStep(<<inner>>), HistoryStep(c)>>, FALSE) :
          inner \in {InsertStep(a), PresenceStep(a)}, c \in {"undo", "redo"}}
  \cup {MutatorOf(<<NestedStep(<<InsertStep(a)>>)>>, FALSE)}

\* presence.set({cursor: ...}, {addToHistory: true}) of a client.
HistoryPresenceStep(a) ==
  StepOf("presence-history", 0, 0, <<>>, {}, {<<"cursor", StyleValue(a)>>}, <<>>)

\* The mutators that set the presence with addToHistory: alone, after an
\* insert, and before a set of the same key without addToHistory.
ReverseMutators(a) ==
  {MutatorOf(<<HistoryPresenceStep(a)>>, FALSE),
   MutatorOf(<<InsertStep(a), HistoryPresenceStep(a)>>, FALSE),
   MutatorOf(<<HistoryPresenceStep(a), PresenceStep(a)>>, FALSE)}

\* The mutators that make two calls of the proxy: two inserts, or an
\* insert and the deletion of what it put in.
TwiceMutators(a) ==
  {MutatorOf(<<InsertStep(a), InsertStep(a)>>, FALSE),
   MutatorOf(<<InsertStep(a),
               StepOf("edit", 0, Len(typing[a].content), <<>>, {}, {}, <<>>)>>, FALSE)}

\* The mutators that insert and call doc.update with a mutator that
\* inserts: the nested call first, or the insert of their own first.
NestedMutators(a) ==
  {MutatorOf(<<NestedStep(<<InsertStep(a)>>), InsertStep(a)>>, FALSE),
   MutatorOf(<<InsertStep(a), NestedStep(<<InsertStep(a)>>)>>, FALSE)}

\* The mutators: one call of the proxy, then return or throw; for the
\* clients that make them, the ones that set the presence and the ones
\* that call the document.
Mutators(a, length) ==
  {MutatorOf(<<in>>, t) :
     in \in {i \in OpInputs(a, length) : ValidInput(i) /\ KindOf(i) \in typing[a].kinds},
     t \in BOOLEAN}
  \cup (IF "presence" \in typing[a].kinds THEN PresenceMutators(a) ELSE {})
  \cup (IF "history" \in typing[a].kinds THEN HistoryMutators(a) ELSE {})
  \cup (IF "clear" \in typing[a].kinds THEN {MutatorOf(<<ClearStep>>, FALSE)} ELSE {})
  \cup (IF "reverse" \in typing[a].kinds THEN ReverseMutators(a) ELSE {})
  \cup (IF "twice" \in typing[a].kinds THEN TwiceMutators(a) ELSE {})
  \cup (IF "nested" \in typing[a].kinds THEN NestedMutators(a) ELSE {})
  \cup (IF "none" \in typing[a].kinds THEN {MutatorOf(<<>>, FALSE)} ELSE {})

NoMutator == MutatorOf(<<>>, FALSE)

\* The record of a call: which one, on whose document, whether it threw,
\* the mutator, whether the document had no clone, and the document before
\* the call.
CallOf(call, actor, threw, input, fresh, before) ==
  [call |-> call, actor |-> actor, threw |-> threw, input |-> input,
   fresh |-> fresh, before |-> before]

\* What a call record keeps of the document before the call: the document
\* itself and what the properties read of it.
Before(d) ==
  [json |-> ToSortedJSON(d.root.text), string |-> TextToString(d.root.text),
   localChanges |-> Len(d.localChanges), changeID |-> d.changeID,
   undoStack |-> Len(d.undoStack), redoStack |-> Len(d.redoStack),
   doc |-> [d EXCEPT !.events = <<>>, !.observed = <<>>, !.delivered = <<>>]]

NoBefore ==
  [json |-> <<>>, string |-> <<>>, localChanges |-> 0,
   changeID |-> InitialChangeIDOf("none"), undoStack |-> 0, redoStack |-> 0,
   doc |-> DocumentOf("none", <<>>)]

NoCall == CallOf("none", "none", FALSE, NoMutator, FALSE, NoBefore)

\* The tombstones of a text: id and removedAt.
Tombstones(nodes) ==
  {[id |-> nodes[p].id, removedAt |-> nodes[p].removedAt] :
     p \in {q \in 1..Len(nodes) : IsRemoved(nodes[q])}}

NoGC == [versionVector |-> NoVV, root |-> {}, clone |-> {}]

\* last: the call, the call before it (kept for undo), and for a garbage
\* collection its version vector and the tombstones it found.
LastOf(call, prior, gc) == [call |-> call, prior |-> prior, gc |-> gc]

\* The documents of both clients and the server once client A has typed
\* the base text (if any) and both clients have synced.
Attached(base) ==
  LET empty == [a \in Actors |-> DocumentOf(a, RGATreeSplitCreate)]
      s0 == ServerOf(<<>>, [a \in Actors |-> EmptyVV])
  IN IF base = <<>> THEN [doc |-> empty, server |-> s0]
     ELSE
  With(DocUpdate(empty["A"],
                 MutatorOf(<<StepOf("edit", 0, 0, base, {}, {}, <<>>)>>, FALSE)).doc,
       LAMBDA typed :
  With(CreateChangePack(typed), LAMBDA packA :
  With(PushPack(s0, "A", packA), LAMBDA s1 :
  With(DocApplyChangePack(typed, ResponsePack(s1, "A", packA, 0), 0).doc, LAMBDA docA :
  With(CreateChangePack(empty["B"]), LAMBDA packB :
  With(PushPack(s1, "B", packB), LAMBDA s2 :
  With(DocApplyChangePack(empty["B"], ResponsePack(s2, "B", packB, 0), 0).doc, LAMBDA docB :
    [doc |-> [a \in Actors |->
                [(IF a = "A" THEN docA ELSE docB)
                   EXCEPT !.events = <<>>, !.observed = <<>>, !.delivered = <<>>, !.undoStack = <<>>]],
     server |-> s2])))))))

InitWith(base, calls, typed) ==
  /\ \E attached \in {Attached(base)} :
       /\ doc = attached.doc
       /\ server = attached.server
  /\ inflight = [a \in Actors |-> NoPack]
  /\ quota = calls
  /\ typing = typed
  /\ last = LastOf(NoCall, NoCall, NoGC)

\* What the server tells a client that attaches: the size limit and the
\* schema rules of the document.
ConfigOf(maxSizeLimit, schemaRules) ==
  [maxSizeLimit |-> maxSizeLimit, schemaRules |-> schemaRules]

\* As InitWith, the documents given the size limit and the schema rules
\* (setMaxSizePerDocument, setSchemaRules) and client A the presence.
InitConfigured(base, calls, typed, config, presence) ==
  /\ \E attached \in {Attached(base)} :
       /\ doc = [a \in Actors |->
                   [attached.doc[a] EXCEPT
                      !.maxSizeLimit = config.maxSizeLimit,
                      !.schemaRules = config.schemaRules,
                      !.presences = [@ EXCEPT !["A"] = presence]]]
       /\ server = attached.server
  /\ inflight = [a \in Actors |-> NoPack]
  /\ quota = calls
  /\ typing = typed
  /\ last = LastOf(NoCall, NoCall, NoGC)

\* Client A types "ac", client B types "bd".
Typing(kinds) ==
  [a \in Actors |-> InputOf(IF a = "A" THEN <<"a", "c">> ELSE <<"b", "d">>, kinds)]

\* Both documents attached with an empty text; the clients insert, delete
\* and style.
Init ==
  InitWith(<<>>, QuotaOf(MaxCalls, [a \in Actors |-> MaxCalls], 0),
           Typing({"insert", "delete", "style"}))

\* An answer of the server changes the document of its client alone, so
\* the steps of the other clients commute with its delivery: they are taken
\* when no answer to another client is in flight.
Quiet(a) == \A b \in Actors \ {a} : inflight[b] = NoPack

\* A client has a local call left.
CanCall(a) ==
  quota.total > 0 /\ quota.each[a] > 0 /\ Quiet(a) /\ doc[a].status # "detached"

Spent(a) == [quota EXCEPT !.total = @ - 1, !.each[a] = @ - 1]

\* doc.update(mutator) that returns.
Update(a) ==
  /\ CanCall(a)
  /\ \E m \in Mutators(a, TreeLength(doc[a].root.text)) :
       \E r \in {DocUpdate(doc[a], m)} :
          /\ ~r.threw
          /\ doc' = [doc EXCEPT ![a] = r.doc]
          /\ last' = LastOf(CallOf("update", a, FALSE, m, ~doc[a].hasClone,
                                   Before(doc[a])),
                            NoCall, NoGC)
  /\ quota' = Spent(a)
  /\ UNCHANGED <<server, inflight, typing>>

\* doc.update(mutator) that re-raises what the mutator threw.
UpdateFails(a) ==
  /\ CanCall(a)
  /\ \E m \in Mutators(a, TreeLength(doc[a].root.text)) :
       \E r \in {DocUpdate(doc[a], m)} :
          /\ r.threw
          /\ doc' = [doc EXCEPT ![a] = r.doc]
          /\ last' = LastOf(CallOf("update", a, TRUE, m, ~doc[a].hasClone,
                                   Before(doc[a])),
                            NoCall, NoGC)
  /\ quota' = Spent(a)
  /\ UNCHANGED <<server, inflight, typing>>

\* doc.history.undo()
Undo(a) ==
  /\ CanCall(a)
  /\ \E r \in {DocUndo(doc[a])} :
        /\ doc' = [doc EXCEPT ![a] = r.doc]
        /\ last' = LastOf(CallOf("undo", a, r.threw, NoMutator, ~doc[a].hasClone,
                                 Before(doc[a])),
                          last.call, NoGC)
  /\ quota' = Spent(a)
  /\ UNCHANGED <<server, inflight, typing>>

\* The tombstones garbageCollect finds in a document.
FoundBy(d, versionVector) ==
  [versionVector |-> versionVector,
   root |-> Tombstones(d.root.text),
   clone |-> IF d.hasClone THEN Tombstones(d.clone.text) ELSE {}]

\* The version vectors given to garbageCollect directly: the empty one,
\* the one of a document, one a client reported, or their minimum.
Vectors ==
  {EmptyVV, MinSyncedVersionVector(server.reported)}
  \cup {doc[b].changeID.versionVector : b \in Actors}
  \cup {server.reported[b] : b \in Actors}

\* doc.garbageCollect(versionVector), called directly.
GarbageCollect(a) ==
  /\ quota.collect > 0
  /\ Quiet(a)
  /\ \E versionVector \in Vectors :
       /\ doc' = [doc EXCEPT ![a] = DocGarbageCollect(doc[a], versionVector)]
       /\ last' = LastOf(CallOf("garbageCollect", a, FALSE, NoMutator,
                                ~doc[a].hasClone, Before(doc[a])),
                         NoCall, FoundBy(doc[a], versionVector))
  /\ quota' = [quota EXCEPT !.collect = @ - 1]
  /\ UNCHANGED <<server, inflight, typing>>

\* A sync of the client can change its document or the server: it has
\* changes to push or to pull, a version vector to report, or nodes that
\* the minimum synced version vector lets it purge.
Useful(a) ==
  \/ Len(doc[a].localChanges) > 0
  \/ PulledFrom(server.changes, a, doc[a].checkpoint.serverSeq + 1) # <<>>
  \/ server.reported[a] # doc[a].changeID.versionVector
  \/ Purgeable(doc[a].root, MinSyncedVersionVector(server.reported)) # {}
  \/ (doc[a].hasClone
      /\ Purgeable(doc[a].clone, MinSyncedVersionVector(server.reported)) # {})

\* The client sends createChangePack() and the server answers.
SyncRequest(a) ==
  /\ doc[a].status = "attached"
  /\ inflight[a] = NoPack
  /\ Quiet(a)
  /\ Useful(a)
  /\ \E pack \in {CreateChangePack(doc[a])} :
       \E s \in {PushPack(server, a, pack)} :
         /\ server' = s
         /\ inflight' = [inflight EXCEPT
                           ![a] = ResponsePack(s, a, pack, doc[a].checkpoint.serverSeq)]
  /\ UNCHANGED <<doc, quota, typing, last>>

\* What ChangeID.setClocks adds to the greater lamport when the pack holds
\* a snapshot.
Ticks(pack) == IF pack.hasSnapshot THEN {0, 1} ELSE {0}

\* The client gets the answer: doc.applyChangePack(pack).
SyncResponse(a) ==
  /\ inflight[a] # NoPack
  /\ \E tick \in Ticks(inflight[a]) :
     \E r \in {DocApplyChangePack(doc[a], inflight[a], tick)} :
       \E applied \in {DocApplyChanges(doc[a], inflight[a].changes, 1, "remote")} :
         /\ doc' = [doc EXCEPT ![a] = r.doc]
         /\ last' = LastOf(CallOf("response", a, ~r.ok, NoMutator, ~doc[a].hasClone,
                                  Before(doc[a])),
                           NoCall,
                           IF r.ok /\ ~inflight[a].hasSnapshot
                             THEN FoundBy(applied.doc, inflight[a].versionVector)
                             ELSE NoGC)
  /\ inflight' = [inflight EXCEPT ![a] = NoPack]
  /\ UNCHANGED <<server, quota, typing>>

\* doc.history.redo()
Redo(a) ==
  /\ CanCall(a)
  /\ \E r \in {DocRedo(doc[a])} :
        /\ doc' = [doc EXCEPT ![a] = r.doc]
        /\ last' = LastOf(CallOf("redo", a, r.threw, NoMutator, ~doc[a].hasClone,
                                 Before(doc[a])),
                          last.call, NoGC)
  /\ quota' = Spent(a)
  /\ UNCHANGED <<server, inflight, typing>>

\* The client sends createChangePack() and the server answers with a
\* snapshot.
SnapshotRequest(a) ==
  /\ doc[a].status = "attached"
  /\ inflight[a] = NoPack
  /\ Quiet(a)
  /\ server.snapshots < MaxSnapshots
  /\ \E pack \in {CreateChangePack(doc[a])} :
       \E s \in {PushPack(server, a, pack)} :
         /\ server' = [s EXCEPT !.snapshots = @ + 1]
         /\ inflight' = [inflight EXCEPT ![a] = SnapshotPack(s, a, pack)]
  /\ UNCHANGED <<doc, quota, typing, last>>

\* The client removes the document: it sends createChangePack() with
\* isRemoved set, and the server answers with a pack that has it set, as
\* it does to every client from then on.
RemoveRequest(a) ==
  /\ doc[a].status = "attached"
  /\ ~server.removed
  /\ inflight[a] = NoPack
  /\ Quiet(a)
  /\ \E pack \in {[CreateChangePack(doc[a]) EXCEPT !.isRemoved = TRUE]} :
       \E s \in {PushPack(server, a, pack)} :
         /\ server' = s
         /\ inflight' = [inflight EXCEPT
                           ![a] = ResponsePack(s, a, pack, doc[a].checkpoint.serverSeq)]
  /\ UNCHANGED <<doc, quota, typing, last>>

\* An answer that comes late: applyChangePack of a pack without changes
\* whose checkpoint is not ahead of the one of the document.
StalePack(a) ==
  /\ doc[a].status = "attached"
  /\ inflight[a] = NoPack
  /\ CanCall(a)
  /\ \E clientSeq \in 0..doc[a].checkpoint.clientSeq :
     \E serverSeq \in 0..doc[a].checkpoint.serverSeq :
     \E r \in {DocApplyChangePack(doc[a],
                  ChangePackOf(Checkpoint(clientSeq, serverSeq), <<>>, EmptyVV), 0)} :
       /\ doc' = [doc EXCEPT ![a] = r.doc]
       /\ last' = LastOf(CallOf("late", a, ~r.ok, NoMutator, ~doc[a].hasClone,
                            Before(doc[a])),
                         NoCall, NoGC)
  /\ quota' = Spent(a)
  /\ UNCHANGED <<server, inflight, typing>>

\* The client detaches the document: doc.applyStatus(DocStatus.Detached).
Detach(a) ==
  /\ doc[a].status = "attached"
  /\ inflight[a] = NoPack
  /\ CanCall(a)
  /\ doc' = [doc EXCEPT ![a] = DocApplyStatus([doc[a] EXCEPT !.events = <<>>, !.observed = <<>>, !.delivered = <<>>],
                                              "detached")]
  /\ last' = LastOf(CallOf("detach", a, FALSE, NoMutator, ~doc[a].hasClone,
                           Before(doc[a])),
                    NoCall, NoGC)
  /\ quota' = Spent(a)
  /\ UNCHANGED <<server, inflight, typing>>

Next ==
  \/ \E a \in Actors : Update(a)
  \/ \E a \in Actors : SyncRequest(a)
  \/ \E a \in Actors : SyncResponse(a)

Spec == Init /\ [][Next]_vars

\* Two clients that make one change each: calls of all kinds on an empty
\* text and on "abc"; on "hello", A deletes and B inserts "X".
InitPair ==
  \/ \E base \in {<<>>, <<"a", "b", "c">>} :
       InitWith(base, QuotaOf(2 * PairCalls, [a \in Actors |-> PairCalls], 0),
                [a \in Actors |-> InputOf(IF a = "A" THEN <<"a">> ELSE <<"b">>, Kinds)])
  \/ InitWith(<<"h", "e", "l", "l", "o">>,
              QuotaOf(2 * PairCalls, [a \in Actors |-> PairCalls], 0),
              [a \in Actors |-> IF a = "A" THEN InputOf(<<>>, {"delete"})
                                ELSE InputOf(<<"X">>, {"insert"})])

SpecPair == InitPair /\ [][Next]_vars

\* The protocol with direct calls of garbageCollect: client A inserts and
\* deletes, client B reads.
InitGC ==
  InitWith(<<>>,
           QuotaOf(MaxCalls, [a \in Actors |-> IF a = "A" THEN MaxCalls ELSE 0],
                   MaxCollects),
           Typing({"insert", "delete"}))

NextGC ==
  \/ Next
  \/ \E a \in Actors : GarbageCollect(a)

SpecGC == InitGC /\ [][NextGC]_vars

\* One document alone: updates that return, updates that throw, undo.
InitDoc ==
  InitWith(<<>>, QuotaOf(MaxCalls, [a \in Actors |-> IF a = "A" THEN MaxCalls ELSE 0], 0),
           Typing(Kinds))

NextDoc ==
  \/ \E a \in Actors : Update(a)
  \/ \E a \in Actors : UpdateFails(a)
  \/ \E a \in Actors : Undo(a)

SpecDoc == InitDoc /\ [][NextDoc]_vars

\* The configurations of a document: no limit and no schema, a schema the
\* text does not meet, and a size limit that one letter and its node fit
\* into.
Configs ==
  {ConfigOf(0, <<>>), ConfigOf(0, <<Rule("string")>>),
   ConfigOf(2 + TimeTicketSize + 4, <<Rule("yorkie.Text")>>)}

\* The life of a document: client A inserts one letter at a time and
\* client B reads; updates that fail, undo and redo, answers with changes
\* or with a snapshot, answers that come late, removal and detachment.  A
\* late answer and a detachment count as calls.
InitLife ==
  \E config \in Configs :
    InitConfigured(<<>>,
                   QuotaOf(MaxCalls, [a \in Actors |-> IF a = "A" THEN MaxCalls
                                                       ELSE 0], 0),
                   [a \in Actors |->
                      InputOf(IF a = "A" THEN <<"a">> ELSE <<"b">>, {"insert"})],
                   config, NoPresence)

NextLife ==
  \/ Next
  \/ \E a \in Actors : UpdateFails(a)
  \/ \E a \in Actors : Undo(a)
  \/ \E a \in Actors : Redo(a)
  \/ \E a \in Actors : SnapshotRequest(a)
  \/ \E a \in Actors : RemoveRequest(a)
  \/ \E a \in Actors : StalePack(a)
  \/ \E a \in Actors : Detach(a)

SpecLife == InitLife /\ [][NextLife]_vars

\* The watch stream tells the client that another one watches the document.
Watch(a) ==
  /\ doc[a].status = "attached"
  /\ Quiet(a)
  /\ \E publisher \in Actors \ {a} :
       /\ publisher \notin doc[a].onlineClients
       /\ doc' = [doc EXCEPT ![a] = DocWatched(doc[a], publisher)]
       /\ last' = LastOf(CallOf("watch", a, FALSE, NoMutator, ~doc[a].hasClone,
                                Before(doc[a])),
                         NoCall, NoGC)
  /\ UNCHANGED <<server, inflight, quota, typing>>

\* Presences: client B inserts a letter, sets its presence and clears it,
\* client A watches B at some point or never, and both sync.
InitPresence ==
  InitWith(<<>>,
           QuotaOf(MaxCalls, [a \in Actors |-> IF a = "B" THEN MaxCalls ELSE 0], 0),
           [a \in Actors |->
              InputOf(IF a = "A" THEN <<"a">> ELSE <<"b">>,
                      {"insert", "presence", "clear"})])

NextPresence ==
  \/ Next
  \/ \E a \in Actors : Watch(a)

SpecPresence == InitPresence /\ [][NextPresence]_vars

\* The paths of the subscribers and of the operations of the events: "$",
\* "$.a", "$.a.b", "$.ab" and the one of the text.
Paths ==
  {<<"$">>, <<"$", ".", "a">>, <<"$", ".", "a", ".", "b">>, <<"$", ".", "a", "b">>,
   TextPath}

\* The operation info of an edit of the element at the path.
OpInfoAt(path) == [type |-> "edit", from |-> 0, to |-> 0, value |-> {}, path |-> path]

\* The event of a change with operation infos at the paths.
ChangeEventAt(type, paths) ==
  [PlainEvent(type) EXCEPT !.operations = [i \in 1..Len(paths) |-> OpInfoAt(paths[i])]]

\* The batches given to publish: a LocalChange or RemoteChange event with
\* operations at one or two paths, alone or after a Snapshot event or
\* before another event of its kind.
Batches ==
  {<<ChangeEventAt(type, paths)>> :
     type \in {"local-change", "remote-change"},
     paths \in {<<p>> : p \in Paths} \cup {<<p, q>> : p \in Paths, q \in Paths}}
  \cup {<<PlainEvent("snapshot"), ChangeEventAt("remote-change", <<p>>)>> : p \in Paths}
  \cup {<<ChangeEventAt("local-change", <<p>>), ChangeEventAt("local-change", <<q>>)>> :
          p \in Paths, q \in Paths}

\* doc.subscribe(target, next)
Subscribe(a) ==
  /\ CanCall(a)
  /\ doc[a].target = NoTarget
  /\ \E target \in Paths :
       doc' = [doc EXCEPT ![a] = DocSubscribe(doc[a], target)]
  /\ last' = LastOf(CallOf("subscribe", a, FALSE, NoMutator, ~doc[a].hasClone,
                           Before(doc[a])),
                    NoCall, NoGC)
  /\ UNCHANGED <<server, inflight, quota, typing>>

\* doc.publish(batch)
Emit(a) ==
  /\ CanCall(a)
  /\ \E batch \in Batches :
       doc' = [doc EXCEPT ![a] =
                 Publish([doc[a] EXCEPT !.events = <<>>, !.observed = <<>>,
                                        !.delivered = <<>>], batch)]
  /\ last' = LastOf(CallOf("publish", a, FALSE, NoMutator, ~doc[a].hasClone,
                           Before(doc[a])),
                    NoCall, NoGC)
  /\ quota' = Spent(a)
  /\ UNCHANGED <<server, inflight, typing>>

\* One document with a subscriber: the client inserts and styles, and
\* batches of events are published.
InitSubscribe ==
  InitWith(<<>>, QuotaOf(MaxCalls, [a \in Actors |-> IF a = "A" THEN MaxCalls ELSE 0], 0),
           Typing({"insert", "style"}))

NextSubscribe ==
  \/ \E a \in Actors : Update(a)
  \/ \E a \in Actors : Subscribe(a)
  \/ \E a \in Actors : Emit(a)

SpecSubscribe == InitSubscribe /\ [][NextSubscribe]_vars

\* One document alone, with a size limit or a schema or neither: updates
\* of every kind, updates that set the presence, updates whose mutator
\* calls undo, redo or update, updates that fail, undo and redo.
InitHistory ==
  \E config \in Configs :
    InitConfigured(<<>>,
                   QuotaOf(MaxCalls, [a \in Actors |-> IF a = "A" THEN MaxCalls
                                                       ELSE 0], 0),
                   [a \in Actors |->
                      InputOf(IF a = "A" THEN <<"a">> ELSE <<"b">>,
                              Kinds \cup {"presence", "history", "reverse", "twice"})],
                   config, NoPresence)

NextHistory ==
  \/ \E a \in Actors : Update(a)
  \/ \E a \in Actors : UpdateFails(a)
  \/ \E a \in Actors : Undo(a)
  \/ \E a \in Actors : Redo(a)

SpecHistory == InitHistory /\ [][NextHistory]_vars

\* One document alone, with a size limit or a schema or neither, whose
\* client inserts, deletes, calls doc.update from within a mutator that
\* inserts as well, and makes updates whose mutator does nothing; with undo
\* and redo.
InitNested ==
  \E config \in Configs :
    InitConfigured(<<>>,
                   QuotaOf(MaxCalls, [a \in Actors |-> IF a = "A" THEN MaxCalls
                                                       ELSE 0], 0),
                   Typing({"insert", "delete", "nested", "none"}),
                   config, NoPresence)

SpecNested == InitNested /\ [][NextHistory]_vars

----------------------------------------------------------------------------
(* What the properties below are stated with.                              *)

\* Every change made so far: the log of the server and the local changes
\* that are not pushed yet.
AllChanges ==
  {server.changes[i] : i \in 1..Len(server.changes)}
  \cup UNION {{doc[a].localChanges[i] : i \in 1..Len(doc[a].localChanges)} : a \in Actors}

\* The changes that hold an operation executed at the given ticket.
Made(ticket) ==
  {c \in AllChanges : \E i \in 1..Len(c.operations) : c.operations[i].executedAt = ticket}

\* node.createdAt.lamport <= versionVector[node.createdAt.actor], a missing
\* entry counting as 0.
Seen(versionVector, node) ==
  node.id.createdAt.lamport
    <= (IF node.id.createdAt.actor \in Actors
          THEN versionVector[node.id.createdAt.actor] ELSE 0)

\* The texts of a document: the one of the root and the one of the clone.
Texts(a) == {doc[a].root.text} \cup (IF doc[a].hasClone THEN {doc[a].clone.text} ELSE {})

\* A string with the range [from, to) replaced by the content.
Splice(string, from, to, content) ==
  SubSeq(string, 1, from) \o content \o SubSeq(string, to + 1, Len(string))

\* Every change is pushed and pulled and no answer is in flight.
Synced ==
  \A a \in Actors :
    /\ Len(doc[a].localChanges) = 0
    /\ inflight[a] = NoPack
    /\ doc[a].checkpoint.serverSeq = Len(server.changes)

\* The last call is an applyChangePack of client a that returned.
Responded(a) ==
  last.call.call = "response" /\ last.call.actor = a /\ ~last.call.threw

\* The last call is an update of client a that returned.
Updated(a) ==
  last.call.call = "update" /\ last.call.actor = a /\ ~last.call.threw

\* The last event published to the subscribers of a document.
LastEvent(d) ==
  LET batch == d.events[Len(d.events)]
  IN batch[Len(batch)]

HasLastEvent(d) == Len(d.events) > 0 /\ Len(d.events[Len(d.events)]) > 0

\* The change of the log an event tells of.
ChangeOfEvent(e) ==
  CHOOSE c \in AllChanges : c.id.actor = e.actor /\ c.id.clientSeq = e.clientSeq

----------------------------------------------------------------------------
(* C10 *)

\* posToIndex(indexToPos(i), true) = i for every index of the text.
RoundTrip(nodes) ==
  \A i \in 0..TreeLength(nodes) :
    /\ IndexToPos(nodes, i).ok
    /\ PosToIndex(nodes, IndexToPos(nodes, i).pos, TRUE) = i

\* C10: after any sequence of local and remote edits, splits, styles and
\* garbage collections, posToIndex(indexToPos(i), preferToLeft = true) = i
\* for every index i with 0 <= i <= length, in the root and in the clone of
\* every document.
C10_RoundTrip == \A a \in Actors : \A nodes \in Texts(a) : RoundTrip(nodes)

\* A document that has applied a pack and purged a tombstone, and whose
\* text holds a node between the two parts of a split node.
C10_Witness ==
  \E a \in Actors :
    /\ Responded(a)
    /\ \E t \in last.gc.root : \A p \in 1..Len(doc[a].root.text) :
         doc[a].root.text[p].id # t.id
    /\ LET nodes == doc[a].root.text
       IN \E p \in 2..Len(nodes) : \E q \in 2..Len(nodes) :
            /\ p + 1 < q
            /\ nodes[p].insNext = q
            /\ \E r \in (p + 1)..(q - 1) : ~IsRemoved(nodes[r])

----------------------------------------------------------------------------
(* C3 *)

\* Every tombstone of every text was made by an edit of a change whose
\* version vector covers the creation of the node.
TombstonesGated ==
  \A a \in Actors : \A nodes \in Texts(a) : \A p \in 1..Len(nodes) :
    IsRemoved(nodes[p]) =>
      /\ Made(nodes[p].removedAt) # {}
      /\ \A c \in Made(nodes[p].removedAt) : Seen(c.id.versionVector, nodes[p])

\* A local edit (run by the proxy without version vector) replaces the whole
\* range it is given: the text is the one before with the range spliced.
LocalEditSeesAll ==
  \A a \in Actors :
    (Updated(a) /\ last.call.input.ops[1].type = "edit") =>
      LET in == last.call.input.ops[1]
          string == Splice(last.call.before.string, in.from, in.to, in.content)
      IN /\ TextToString(doc[a].clone.text) = string
         /\ TextToString(doc[a].root.text) = string

\* C3: an edit executed with a version vector vv never tombstones a node n
\* unless n.createdAt.lamport <= vv[n.createdAt.actor] (a missing entry
\* counts as 0); an edit executed without a version vector (a local edit)
\* treats every node of its range as seen.
C3_DeletionGated == TombstonesGated /\ LocalEditSeesAll

\* A replica holds a live node between two tombstones of one remote edit
\* whose version vector does not cover the node.
C3_Witness ==
  \E a \in Actors :
    LET nodes == doc[a].root.text
    IN \E p \in 2..Len(nodes) : \E q \in 2..Len(nodes) : \E r \in 2..Len(nodes) :
         /\ p < q /\ q < r
         /\ IsRemoved(nodes[p]) /\ IsRemoved(nodes[r]) /\ ~IsRemoved(nodes[q])
         /\ nodes[p].removedAt = nodes[r].removedAt
         /\ \E c \in Made(nodes[p].removedAt) :
              c.id.actor # a /\ ~Seen(c.id.versionVector, nodes[q])

----------------------------------------------------------------------------
(* C6 *)

\* Every attribute of every node was set by a style of a change whose
\* version vector covers the creation of the node.
AttributesGated ==
  \A a \in Actors : \A nodes \in Texts(a) : \A p \in 1..Len(nodes) :
    \A k \in AttrKeys :
      nodes[p].value.attributes[k] # NoAttr =>
        /\ Made(nodes[p].value.attributes[k].updatedAt) # {}
        /\ \A c \in Made(nodes[p].value.attributes[k].updatedAt) :
             Seen(c.id.versionVector, nodes[p])

\* The live nodes of a text that lie in the index range [from, to).
NodesIn(nodes, from, to) ==
  {p \in 2..Len(nodes) :
     nodes[p].w > 0 /\ IndexOf(nodes, p) < to /\ from < IndexOf(nodes, p) + nodes[p].w}

\* The style changes of the last remote change a replica applied tell of
\* no node its version vector does not cover, and every node they tell of
\* has the attribute, set at the ticket of the style or after it.
StyleEventsGated ==
  \A a \in Actors :
    (Responded(a) /\ HasLastEvent(doc[a])) =>
      LET e == LastEvent(doc[a])
          c == ChangeOfEvent(e)
          nodes == doc[a].root.text
      IN \A i \in 1..Len(e.operations) :
           e.operations[i].type = "style" =>
             \A p \in NodesIn(nodes, e.operations[i].from, e.operations[i].to) :
               /\ Seen(c.id.versionVector, nodes[p])
               /\ \A kv \in e.operations[i].value :
                    /\ nodes[p].value.attributes[kv[1]] # NoAttr
                    /\ \E j \in 1..Len(c.operations) :
                         ~After(c.operations[j].executedAt,
                                nodes[p].value.attributes[kv[1]].updatedAt)

\* C6: a Style operation executed with version vector vv changes the
\* attributes of a node N of its range only if
\* N.createdAt.lamport <= vv[N.createdAt.actor]: a style whose version
\* vector is behind the creation of N leaves the attributes of N as they
\* are and emits no style change for N, one whose version vector has
\* reached it sets the attribute on N.
C6_StyleGated == AttributesGated /\ StyleEventsGated

\* A replica has applied a remote style that set the attribute on two nodes
\* and left a node between them, which its version vector does not cover,
\* without attribute.
C6_Witness ==
  \E a \in Actors :
    /\ Responded(a)
    /\ HasLastEvent(doc[a])
    /\ LET e == LastEvent(doc[a])
           c == ChangeOfEvent(e)
           nodes == doc[a].root.text
       IN /\ e.type = "remote-change"
          /\ Len(e.operations) = 2
          /\ \A i \in 1..Len(e.operations) : e.operations[i].type = "style"
          /\ \E p \in 2..Len(nodes) : \E q \in 2..Len(nodes) : \E r \in 2..Len(nodes) :
               /\ p < q /\ q < r
               /\ ~IsRemoved(nodes[q])
               /\ ~Seen(c.id.versionVector, nodes[q])
               /\ nodes[q].value.attributes["b"] = NoAttr
               /\ nodes[p].value.attributes["b"].updatedAt = c.operations[1].executedAt
               /\ nodes[r].value.attributes["b"].updatedAt = c.operations[1].executedAt

----------------------------------------------------------------------------
(* C8 *)

\* No applyChangePack throws.
EveryPackApplies == ~(last.call.call = "response" /\ last.call.threw)

\* Replicas that have pushed and pulled everything show the same content.
Converged ==
  Synced => \A a \in Actors : \A b \in Actors :
              ToSortedJSON(doc[a].root.text) = ToSortedJSON(doc[b].root.text)

\* C8: when garbage collection is driven by the pointwise minimum of the
\* version vectors of all participants, every change a participant makes or
\* gets afterwards still applies on the replica that purged (no position
\* fails to resolve because its node was purged), and the replicas converge.
C8_PurgedNotNeeded == EveryPackApplies /\ Converged

\* The edits of a change that delete.
Deletes(c) ==
  \E i \in 1..Len(c.operations) :
    c.operations[i].type = "edit" /\ c.operations[i].fromPos # c.operations[i].toPos

\* A replica that had purged the nodes it had deleted itself has applied a
\* remote change after that: the garbage collection of this pack found no
\* tombstone at all.
C8_Witness ==
  \E a \in Actors :
    /\ Responded(a)
    /\ HasLastEvent(doc[a])
    /\ LastEvent(doc[a]).type = "remote-change"
    /\ last.gc.root = {}
    /\ Tombstones(doc[a].root.text) = {}
    /\ \E i \in 1..Len(server.changes) :
         server.changes[i].id.actor = a /\ Deletes(server.changes[i])
    /\ Synced

----------------------------------------------------------------------------
(* Two concurrent changes.                                                 *)

\* Neither author had seen the change of the other.
Concurrent(c1, c2) ==
  /\ c1.id.actor # c2.id.actor
  /\ c1.id.versionVector[c2.id.actor] < c2.id.lamport
  /\ c2.id.versionVector[c1.id.actor] < c1.id.lamport

\* The pairs of concurrent changes of the log.
ConcurrentPairs ==
  {pair \in {<<server.changes[i], server.changes[j]>> :
               i \in 1..Len(server.changes), j \in 1..Len(server.changes)} :
     Concurrent(pair[1], pair[2])}

\* The changes of the log other than the two of the pair.
Others(pair) ==
  {i \in 1..Len(server.changes) :
     server.changes[i] # pair[1] /\ server.changes[i] # pair[2]}

\* The two changes of the pair were made on the same text, the base: the
\* log holds nothing else but at most one change before them, which both
\* authors had seen.
OnBase(pair) ==
  /\ Len(server.changes) <= 3
  /\ \A i \in Others(pair) :
       /\ i = 1
       /\ \A k \in 1..2 :
            pair[k].id.versionVector[server.changes[i].id.actor]
              >= server.changes[i].id.lamport

\* The base text: empty, or what the change before the pair typed into the
\* empty text.
BaseString(pair) ==
  IF Others(pair) = {} THEN <<>> ELSE server.changes[1].operations[1].content

\* The index in the base text that a position made on it stands for.
BaseIndex(pos) ==
  IF pos.id = InitialRGATreeSplitNodeID THEN 0 ELSE pos.id.offset + pos.relativeOffset

\* The only operation of a change.
TheOp(c) == c.operations[1]

IsInsert(c) ==
  TheOp(c).type = "edit" /\ TheOp(c).fromPos = TheOp(c).toPos /\ Len(TheOp(c).content) > 0

IsDelete(c) ==
  TheOp(c).type = "edit" /\ TheOp(c).fromPos # TheOp(c).toPos /\ Len(TheOp(c).content) = 0

----------------------------------------------------------------------------
(* C1 *)

\* C1: when two concurrent changes made of text edits and styles have been
\* applied by both replicas, each its own change first and then the one of
\* the other, toSortedJSON of the text is the same on both replicas.
C1_Convergence ==
  (Synced /\ ConcurrentPairs # {}) =>
    \A a \in Actors :
      /\ ToSortedJSON(doc[a].root.text) = ToSortedJSON(doc["A"].root.text)
      /\ doc[a].hasClone =>
           ToSortedJSON(doc[a].clone.text) = ToSortedJSON(doc["A"].root.text)

\* Both replicas have applied a delete and a concurrent style, and the text
\* they show has a part with the attribute and a part without it.
C1_Witness ==
  /\ Synced
  /\ \E pair \in ConcurrentPairs : IsDelete(pair[1]) /\ TheOp(pair[2]).type = "style"
  /\ LET json == ToSortedJSON(doc["B"].root.text)
     IN \E i \in 1..Len(json) : \E j \in 1..Len(json) :
          json[i].attrs # {} /\ json[j].attrs = {}

----------------------------------------------------------------------------
(* C4 *)

\* The pairs of concurrent inserts at one position, the one with the
\* earlier ticket first.
SamePositionInserts ==
  {pair \in ConcurrentPairs :
     /\ IsInsert(pair[1]) /\ IsInsert(pair[2])
     /\ TheOp(pair[1]).fromPos = TheOp(pair[2]).fromPos
     /\ After(TheOp(pair[2]).executedAt, TheOp(pair[1]).executedAt)}

\* Every replica shows the base text with the given content put in at the
\* position of the first insert of the pair.
BothSee(pair, content) ==
  \A a \in Actors :
    TextToString(doc[a].root.text)
      = Splice(BaseString(pair), BaseIndex(TheOp(pair[1]).fromPos),
               BaseIndex(TheOp(pair[1]).fromPos), content)

----------------------------------------------------------------------------
(* C5 *)

\* The pairs of a delete and a concurrent insert strictly inside its range.
InsertsInsideDeleted ==
  {pair \in ConcurrentPairs :
     /\ IsDelete(pair[1]) /\ IsInsert(pair[2])
     /\ BaseIndex(TheOp(pair[1]).fromPos) < BaseIndex(TheOp(pair[2]).fromPos)
     /\ BaseIndex(TheOp(pair[2]).fromPos) < BaseIndex(TheOp(pair[1]).toPos)}

\* C5: if A deletes a range and B, without having seen the delete, inserts
\* text strictly inside that range, then once both changes are applied on
\* both replicas the inserted text is visible, the rest of the range is
\* removed, and both replicas show the same text ("hello", delete [1,4),
\* insert "X" at 3 gives "hXo").
C5_InsertSurvives ==
  Synced => \A pair \in InsertsInsideDeleted :
              OnBase(pair) => \A a \in Actors :
                TextToString(doc[a].root.text)
                  = Splice(BaseString(pair), BaseIndex(TheOp(pair[1]).fromPos),
                           BaseIndex(TheOp(pair[1]).toPos), TheOp(pair[2]).content)

\* From "hello", A has deleted [1,4) and B has inserted "X" at 3,
\* concurrently, and both show "hXo".
C5_Witness ==
  /\ Synced
  /\ \E pair \in InsertsInsideDeleted :
       /\ OnBase(pair) /\ BaseString(pair) = <<"h", "e", "l", "l", "o">>
       /\ BaseIndex(TheOp(pair[1]).fromPos) = 1
       /\ BaseIndex(TheOp(pair[1]).toPos) = 4
       /\ BaseIndex(TheOp(pair[2]).fromPos) = 3
       /\ TheOp(pair[2]).content = <<"X">>
  /\ \A a \in Actors : TextToString(doc[a].root.text) = <<"h", "X", "o">>

----------------------------------------------------------------------------
(* C7 *)

\* versionVector[ticket.actor] >= ticket.lamport
Covers(versionVector, ticket) ==
  ticket.actor \in Actors /\ versionVector[ticket.actor] >= ticket.lamport

\* The tombstone is in the list, with its removedAt, and in both indexes:
\* treeByID finds it under its id, treeByIndex counts it with weight 0.
StillPresent(nodes, t) ==
  \E p \in 2..Len(nodes) :
    /\ nodes[p].id = t.id
    /\ nodes[p].removedAt = t.removedAt
    /\ nodes[p].inID
    /\ FindFloorNode(nodes, t.id) = p
    /\ nodes[p].w = 0

\* The last call collected garbage in the document of client a: a direct
\* garbageCollect, or an applyChangePack that returned.
Collected(a) ==
  /\ last.call.actor = a
  /\ ~last.call.threw
  /\ last.call.call \in {"garbageCollect", "response"}

\* C7: garbageCollect(vv), called directly or by applyChangePack with the
\* version vector of the pack, never purges a tombstone n unless
\* vv[n.removedAt.actor] >= n.removedAt.lamport: every tombstone that the
\* version vector does not cover is still in the list and the indexes
\* afterwards, in the root and in the clone.
C7_GCSafety ==
  \A a \in Actors :
    Collected(a) =>
      /\ \A t \in last.gc.root :
           ~Covers(last.gc.versionVector, t.removedAt) => StillPresent(doc[a].root.text, t)
      /\ \A t \in last.gc.clone :
           ~Covers(last.gc.versionVector, t.removedAt) => StillPresent(doc[a].clone.text, t)

\* A direct garbageCollect has found a tombstone its version vector covers,
\* which it purged, and one it does not cover, which is still there.
C7_Witness ==
  \E a \in Actors :
    /\ last.call.call = "garbageCollect"
    /\ last.call.actor = a
    /\ \E t \in last.gc.root :
         /\ Covers(last.gc.versionVector, t.removedAt)
         /\ \A p \in 1..Len(doc[a].root.text) : doc[a].root.text[p].id # t.id
    /\ \E t \in last.gc.root :
         /\ ~Covers(last.gc.versionVector, t.removedAt)
         /\ StillPresent(doc[a].root.text, t)

----------------------------------------------------------------------------
(* C2 *)

\* The last call is an update of client a that re-raised.
UpdateThrew(a) ==
  last.call.call = "update" /\ last.call.actor = a /\ last.call.threw

\* C2: if the mutator passed to Document.update throws, whatever it edited
\* or styled before and also when the clone was freshly made by deepcopy of
\* the root, then after update re-raises the clone is discarded, the content
\* of the root (text and attributes) is what it was before the call,
\* localChanges, changeID and the undo and redo stacks are unchanged and no
\* event is published.
C2_Rollback ==
  \A a \in Actors :
    UpdateThrew(a) =>
      /\ ~doc[a].hasClone
      /\ ToSortedJSON(doc[a].root.text) = last.call.before.json
      /\ Len(doc[a].localChanges) = last.call.before.localChanges
      /\ doc[a].changeID = last.call.before.changeID
      /\ Len(doc[a].undoStack) = last.call.before.undoStack
      /\ Len(doc[a].redoStack) = last.call.before.redoStack
      /\ doc[a].events = <<>>

----------------------------------------------------------------------------
(* C9 *)

\* C9: for any mutator f that does not fail (text edits, style changes),
\* update(f) immediately followed by undo() restores the root to JSON equal
\* to the state before f.
C9_UndoPairing ==
  \A a \in Actors :
    (/\ last.call.call = "undo" /\ last.call.actor = a
     /\ last.prior.call = "update" /\ last.prior.actor = a /\ ~last.prior.threw) =>
      /\ ~last.call.threw
      /\ ToSortedJSON(doc[a].root.text) = last.prior.before.json

----------------------------------------------------------------------------
(* C11 *)

\* The changes the last call applied to the root of client a, and the root
\* once the last of them is applied: the change an update made, or the
\* changes of the pack an applyChangePack applied (the root before the
\* garbage collection of the call).
AppliedOnce(a) ==
  IF Updated(a) /\ Len(doc[a].localChanges) > last.call.before.localChanges
    THEN [changes |-> <<doc[a].localChanges[Len(doc[a].localChanges)]>>,
          root |-> doc[a].root]
  ELSE IF Responded(a)
    THEN With(PulledFrom(server.changes, a,
                         last.call.before.doc.checkpoint.serverSeq + 1), LAMBDA pulled :
           [changes |-> pulled,
            root |-> DocApplyChanges(last.call.before.doc, pulled, 1, "remote").doc.root])
  ELSE [changes |-> <<>>, root |-> doc[a].root]

\* The change puts content into the text.
Inserts(c) ==
  \E i \in 1..Len(c.operations) :
    c.operations[i].type = "edit" /\ Len(c.operations[i].content) > 0

\* The change styles text.
Styles(c) == \E i \in 1..Len(c.operations) : c.operations[i].type = "style"

\* Applied to the root a second time, the change leaves the nodes of the
\* text and the GC pairs as they are, and the whole root when it styles
\* nothing (a style adds to the size of the document each time it is
\* executed, see C25).
SecondIsNoOp(root, c) ==
  With(ChangeExecute(root, c), LAMBDA again :
    /\ again.ok
    /\ again.root.text = root.text
    /\ again.root.gcPairs = root.gcPairs
    /\ ~Styles(c) => again.root = root)

-----------------------------------------------------------------------------
(* Checkpoint monotonicity.                                                *)

\* The last call was applyChangePack on the document of the client, of
\* the answer of the server or of a late one.
Applied(a) == last.call.call \in {"response", "late"} /\ last.call.actor = a

\* The document published a Snapshot event in its last call.
PublishedSnapshot(d) ==
  \E i \in 1..Len(d.events) :
    \E j \in 1..Len(d.events[i]) : d.events[i][j].type = "snapshot"

\* C12: after any applyChangePack (with or without a snapshot, whatever the
\* checkpoint of the pack) the checkpoint of the document has a clientSeq
\* and a serverSeq that are not below the ones it had before.
C12_CheckpointMonotone ==
  \A a \in Actors :
    Applied(a) =>
      /\ doc[a].checkpoint.clientSeq >= last.call.before.doc.checkpoint.clientSeq
      /\ doc[a].checkpoint.serverSeq >= last.call.before.doc.checkpoint.serverSeq

\* A pack with a snapshot has moved both parts of the checkpoint forward.
C12_Witness ==
  \E a \in Actors :
    /\ Applied(a)
    /\ PublishedSnapshot(doc[a])
    /\ doc[a].checkpoint.clientSeq > last.call.before.doc.checkpoint.clientSeq
    /\ doc[a].checkpoint.serverSeq > last.call.before.doc.checkpoint.serverSeq

-----------------------------------------------------------------------------
(* Lamport monotonicity.                                                   *)

\* The document before the last call.
Old == last.call.before.doc

\* The last call appended a local change with operations to the document
\* of the client (update, undo, redo).
MadeLocalChange(a) ==
  /\ last.call.actor = a
  /\ last.call.call \in {"update", "undo", "redo"}
  /\ ~last.call.threw
  /\ Len(doc[a].localChanges) = Len(Old.localChanges) + 1
  /\ Len(doc[a].localChanges[Len(doc[a].localChanges)].operations) > 0

\* The last call applied a remote change to the document of the client.
AppliedRemoteChange(a) ==
  /\ Applied(a)
  /\ \E i \in 1..Len(doc[a].events) :
       \E j \in 1..Len(doc[a].events[i]) : doc[a].events[i][j].type = "remote-change"

-----------------------------------------------------------------------------
(* Clock sync on receive.                                                  *)

\* The changes of the pack the last call applied: the ones of the others
\* in the log of the server between the checkpoint the document had and
\* the one it has.
Pulled(a) ==
  PulledFrom(SubSeq(server.changes, 1, doc[a].checkpoint.serverSeq), a,
             Old.checkpoint.serverSeq + 1)

\* The document after the first n changes of the pack.
AfterPulled(a, n) == DocApplyChanges(Old, SubSeq(Pulled(a), 1, n), 1, "remote").doc

\* before is the changeID of a document, after the one it has once
\* applyChange(change, Remote) has run.
ClocksSynced(before, change, after) ==
  /\ after.lamport > change.id.lamport
  /\ after.lamport > before.lamport
  /\ \A x \in Actors :
       /\ after.versionVector[x] >= before.versionVector[x]
       /\ after.versionVector[x] >= change.id.versionVector[x]
  /\ after.clientSeq = before.clientSeq
  /\ after.actor = before.actor

\* C14: after applyChange(c, Remote) the changeID of the document has a
\* lamport greater than the one of c.id and greater than its own before,
\* a version vector that is pointwise at least its own before and the one of
\* c.id, and the clientSeq and the actor it had; the changeID the document
\* has after the pack is the one the last change of the pack leaves.
C14_ClockSync ==
  \A a \in Actors :
    Applied(a) /\ ~last.call.threw =>
      /\ \A i \in 1..Len(Pulled(a)) :
           ClocksSynced(AfterPulled(a, i - 1).changeID, Pulled(a)[i],
                        DocApplyChange(AfterPulled(a, i - 1), Pulled(a)[i],
                                       "remote").doc.changeID)
      /\ AfterPulled(a, Len(Pulled(a))).changeID = doc[a].changeID

\* A document with changes of its own, whose lamport was above the one of
\* the change it is given, has applied a remote change.
C14_Witness ==
  \E a \in Actors :
    /\ Applied(a)
    /\ ~last.call.threw
    /\ Len(Pulled(a)) >= 1
    /\ Len(Old.localChanges) > 0
    /\ Old.changeID.lamport > Pulled(a)[1].id.lamport

-----------------------------------------------------------------------------
(* Presence-only changes.                                                  *)

\* The mutator only sets the presence.
OnlySetsPresence(mutator) ==
  /\ Len(mutator.ops) > 0
  /\ \A i \in 1..Len(mutator.ops) : mutator.ops[i].type = "presence"

\* The last call was an update of the client that returned, with a
\* mutator that only sets the presence.
SetPresence(a) ==
  /\ last.call.call = "update"
  /\ last.call.actor = a
  /\ ~last.call.threw
  /\ OnlySetsPresence(last.call.input)

\* The last local change of a document.
LastLocalChange(d) == d.localChanges[Len(d.localChanges)]

\* C15: an update whose mutator only sets the presence makes one more
\* local change, which has no operations, a presence Put and an id with
\* the lamport of the changeID the document had; the changeID of the
\* document then has the next clientSeq and the lamport and the version
\* vector it had.
C15_PresenceOnly ==
  \A a \in Actors :
    SetPresence(a) =>
      /\ Len(doc[a].localChanges) = Len(Old.localChanges) + 1
      /\ LastLocalChange(doc[a]).operations = <<>>
      /\ LastLocalChange(doc[a]).presenceChange.type = "put"
      /\ LastLocalChange(doc[a]).id.lamport = Old.changeID.lamport
      /\ doc[a].changeID.clientSeq = Old.changeID.clientSeq + 1
      /\ doc[a].changeID.lamport = Old.changeID.lamport
      /\ doc[a].changeID.versionVector = Old.changeID.versionVector

\* The presence is set in a document that has made changes with operations.
C15_Witness ==
  \E a \in Actors :
    /\ SetPresence(a)
    /\ Old.changeID.lamport >= 2
    /\ doc[a].presences[a] = PresenceOf(TRUE, {<<"cursor", StyleValue(a)>>})

-----------------------------------------------------------------------------
(* A snapshot that arrives while local changes are pending.                *)

\* The last call applied a snapshot to the document of the client.
AppliedSnapshot(a) == Applied(a) /\ ~last.call.threw /\ PublishedSnapshot(doc[a])

\* The root of the snapshot the last call applied: the document of the
\* server at the serverSeq of the checkpoint, decoded.
SnapshotRoot(a) ==
  BytesToSnapshot(
    ServerSnapshot(SubSeq(server.changes, 1, doc[a].checkpoint.serverSeq), 1,
                   SnapshotOf(RootOf(RGATreeSplitCreate, {}), NoPresences))).root

\* The local changes with a clientSeq above k, in their order.
Above(localChanges, k) ==
  SelectSeq(localChanges, LAMBDA change : change.id.clientSeq > k)

\* The root after the changes from the i-th on are executed on it in order.
RECURSIVE Replayed(_, _, _)
Replayed(root, changes, i) ==
  IF i > Len(changes) THEN root
  ELSE Replayed(ChangeExecute(root, changes[i]).root, changes, i + 1)

\* The number of Snapshot events the document published in its last call.
RECURSIVE SnapshotEvents(_, _)
SnapshotEvents(events, i) ==
  IF i > Len(events) THEN 0
  ELSE Cardinality({j \in 1..Len(events[i]) : events[i][j].type = "snapshot"})
       + SnapshotEvents(events, i + 1)

\* C16: applySnapshot with clientSeq k (the clientSeq of the checkpoint of
\* the pack) drops exactly the local changes with a clientSeq up to k and
\* keeps the others in their order, makes the root the one of the snapshot
\* with the kept local changes applied on top in that order, and publishes
\* exactly one Snapshot event.
C16_SnapshotWithPending ==
  \A a \in Actors :
    AppliedSnapshot(a) =>
      /\ doc[a].localChanges = Above(Old.localChanges, doc[a].checkpoint.clientSeq)
      /\ doc[a].root = Replayed(SnapshotRoot(a), doc[a].localChanges, 1)
      /\ SnapshotEvents(doc[a].events, 1) = 1

\* The snapshot drops a pushed local change and a later one is applied on
\* top of it: the text is not the one of the snapshot.
C16_Witness ==
  \E a \in Actors :
    /\ AppliedSnapshot(a)
    /\ Len(doc[a].localChanges) > 0
    /\ Len(doc[a].localChanges) < Len(Old.localChanges)
    /\ TextToString(doc[a].root.text) # TextToString(SnapshotRoot(a).text)
    /\ TextToString(SnapshotRoot(a).text) # <<>>

-----------------------------------------------------------------------------
(* Clone invalidation.                                                     *)

\* What the last update did, from the document it was called on and its
\* mutator: whether and with what code it threw, and the calls of undo and
\* redo its mutator made.
LastUpdate == DocUpdate(Old, last.call.input)

\* The last call was an update of the client that failed with one of the
\* codes.
UpdateFailed(a, codes) ==
  /\ last.call.call = "update"
  /\ last.call.actor = a
  /\ last.call.threw
  /\ LastUpdate.code \in codes

\* What update fails with when the mutator throws, when the schema is not
\* met, and when the size limit is exceeded.
MutatorCodes == {"Error", "InvalidArgument"}

FailureCodes == MutatorCodes \cup {"SchemaValidationFailed", "SizeExceedsLimit"}

\* The last call detached the document of the client.
Detached(a) == last.call.call = "detach" /\ last.call.actor = a

\* C17 as stated: the clone is absent after every failed update (mutator
\* exception, schema failure, size-limit failure), after every
\* applySnapshot and after every transition to Detached.
C17_CloneAbsent ==
  \A a \in Actors :
    (UpdateFailed(a, FailureCodes) \/ AppliedSnapshot(a) \/ Detached(a))
      => ~doc[a].hasClone

\* C17: the clone is absent after every failed update (mutator exception,
\* schema failure, size-limit failure) and after every applySnapshot that
\* has no local change left to apply again; an applySnapshot that applies
\* local changes again leaves a clone made from the new root, and a
\* transition to Detached leaves the clone as it was.
C17_CloneAbsentOrRebuilt ==
  \A a \in Actors :
    /\ UpdateFailed(a, FailureCodes) => ~doc[a].hasClone
    /\ AppliedSnapshot(a) /\ Len(doc[a].localChanges) = 0 => ~doc[a].hasClone
    /\ AppliedSnapshot(a) /\ Len(doc[a].localChanges) > 0 =>
         /\ doc[a].hasClone
         /\ ToSortedJSON(doc[a].clone.text) = ToSortedJSON(doc[a].root.text)
    /\ Detached(a) =>
         /\ doc[a].hasClone = Old.hasClone
         /\ doc[a].clone = Old.clone

\* An update of a document that has a clone exceeds the size limit.
C17_Witness ==
  \E a \in Actors :
    /\ UpdateFailed(a, {"SizeExceedsLimit"})
    /\ Old.hasClone
    /\ ~doc[a].hasClone

-----------------------------------------------------------------------------
(* The size limit.                                                         *)

\* The mutator calls the proxy and the presence only, and returns.
PlainMutator(mutator) ==
  /\ ~mutator.throws
  /\ \A i \in 1..Len(mutator.ops) : mutator.ops[i].type \in {"edit", "style", "presence"}

\* The run of the mutator of the last update, as update starts it.
LastRun ==
  With([EnsureClone(Old) EXCEPT !.events = <<>>, !.observed = <<>>, !.delivered = <<>>], LAMBDA e :
    RunMutator([e EXCEPT !.isUpdating = TRUE,
                         !.clonePresences[e.changeID.actor] =
                            IF e.presences[e.changeID.actor].has THEN @
                            ELSE PresenceOf(TRUE, {})],
               last.call.input.ops, 1, ChangeIDNext(e.changeID, FALSE),
               RunOf(TRUE, "", e, <<>>, NoPresenceChange, <<>>)))

\* The last call was an update of the client whose mutator ran to its end
\* and left a clone above the size limit.
Exceeded(a) ==
  /\ last.call.call = "update"
  /\ last.call.actor = a
  /\ Old.status # "removed"
  /\ PlainMutator(last.call.input)
  /\ LastRun.ok
  /\ ValidateYorkieRuleset(LastRun.doc.clone, Old.schemaRules)
  /\ Old.maxSizeLimit > 0
  /\ TotalDocSize(LastRun.doc.clone) > Old.maxSizeLimit

\* The last call left root, localChanges, changeID and history of the
\* document of the client as they were, and no clone.
RolledBack(a) ==
  /\ ~doc[a].hasClone
  /\ doc[a].root = Old.root
  /\ doc[a].localChanges = Old.localChanges
  /\ doc[a].changeID = Old.changeID
  /\ doc[a].undoStack = Old.undoStack
  /\ doc[a].redoStack = Old.redoStack

\* The mutator of the last update pushed an operation.
HasOperations == Len(LastRun.operations) > 0

\* C18: whenever maxSizeLimit > 0 and the clone is above it after the
\* mutator has run, update fails with SizeExceedsLimit and leaves no clone
\* and root, localChanges, changeID and history as they were, whatever the
\* kind of the update; an update that fails the schema does the same.
C18_SizeLimit ==
  \A a \in Actors :
    /\ Exceeded(a) =>
         /\ last.call.threw
         /\ LastUpdate.code = "SizeExceedsLimit"
         /\ RolledBack(a)
    /\ UpdateFailed(a, {"SchemaValidationFailed"}) => RolledBack(a)

\* C18 of the updates with operations alone (the ones update checks the
\* size of): they fail with SizeExceedsLimit, and leave the root as it was
\* but for what setStyle wrote through the clone.
C18_SizeLimitOfOperations ==
  \A a \in Actors :
    Exceeded(a) /\ HasOperations =>
      /\ last.call.threw
      /\ LastUpdate.code = "SizeExceedsLimit"
      /\ RolledBack(a)

\* An update that only sets the presence returns although the clone is
\* above the size limit.
C18_PresenceUnchecked ==
  \E a \in Actors : Exceeded(a) /\ ~HasOperations /\ ~last.call.threw

-----------------------------------------------------------------------------
(* A removed document.                                                     *)

\* The last call was an update of the client on a removed document.
UpdatedRemoved(a) ==
  /\ last.call.call = "update"
  /\ last.call.actor = a
  /\ Old.status = "removed"

\* The client is given the pack in flight to it, which has isRemoved, and
\* applyChangePack returns.
RemovedPackApplied(a) ==
  /\ inflight[a] # NoPack
  /\ inflight[a].isRemoved
  /\ inflight'[a] = NoPack
  /\ ~last'.call.threw

\* The status Removed stays, and an update of a removed document throws
\* DocumentRemoved, leaves the document (root, clone, localChanges,
\* changeID, history and the rest) as it was and publishes nothing.
WritesRefused(a) ==
  /\ last.call.actor = a /\ Old.status = "removed" => doc[a].status = "removed"
  /\ UpdatedRemoved(a) =>
       /\ last.call.threw
       /\ LastUpdate.code = "DocumentRemoved"
       /\ Same(doc[a], Old)
       /\ doc[a].events = <<>>

\* C19: once applyChangePack has processed a pack with isRemoved the
\* status is Removed and stays so, and every later update throws
\* DocumentRemoved before the mutator runs: it leaves root, clone,
\* localChanges, changeID and history as they were and publishes nothing.
C19_RemovedIsTerminal ==
  [][\A a \in Actors :
       /\ RemovedPackApplied(a) => doc'[a].status = "removed"
       /\ WritesRefused(a)']_vars

\* A removed document that has a clone and local changes is updated with a
\* mutator that would insert.
C19_Witness ==
  \E a \in Actors :
    /\ UpdatedRemoved(a)
    /\ Old.hasClone
    /\ Len(Old.localChanges) > 0
    /\ Len(last.call.input.ops) > 0
    /\ ~last.call.input.throws

-----------------------------------------------------------------------------
(* Undo and redo that are refused.                                         *)

\* The last call was an undo or a redo of the client with nothing on its
\* stack.
CalledOnEmpty(a) ==
  /\ last.call.actor = a
  /\ \/ last.call.call = "undo" /\ Len(Old.undoStack) = 0
     \/ last.call.call = "redo" /\ Len(Old.redoStack) = 0

\* C20: every undo or redo the mutator of a running update calls, at the
\* start or after other calls, also after a nested update that returned,
\* is refused, and so is every undo (redo) when the undo (redo) stack is
\* empty; a refused call leaves the document as it was.
C20_Refused ==
  \A a \in Actors :
    /\ last.call.call = "update" /\ last.call.actor = a =>
         \A i \in 1..Len(LastUpdate.calls) :
           LastUpdate.calls[i].refused /\ LastUpdate.calls[i].same
    /\ CalledOnEmpty(a) => last.call.threw /\ Same(doc[a], Old)

\* C20 but for the calls after a nested update: an undo or a redo called
\* while isUpdating is set is refused.
C20_RefusedWhileUpdating ==
  \A a \in Actors :
    /\ last.call.call = "update" /\ last.call.actor = a =>
         \A i \in 1..Len(LastUpdate.calls) :
           LastUpdate.calls[i].updating =>
             LastUpdate.calls[i].refused /\ LastUpdate.calls[i].same
    /\ CalledOnEmpty(a) => last.call.threw /\ Same(doc[a], Old)

\* A mutator calls undo after an insert of its own, with something to undo.
C20_WitnessWhileUpdating ==
  \E a \in Actors :
    /\ last.call.call = "update" /\ last.call.actor = a
    /\ Len(Old.undoStack) > 0
    /\ Len(last.call.input.ops) = 2
    /\ last.call.input.ops[1].type = "edit"
    /\ Len(LastUpdate.calls) = 1
    /\ LastUpdate.calls[1].updating
    /\ LastUpdate.calls[1].refused

-----------------------------------------------------------------------------
(* Mutation before publication.                                            *)

\* The last call applied a pack without a snapshot and returned.
AppliedChanges(a) ==
  Applied(a) /\ ~last.call.threw /\ ~PublishedSnapshot(doc[a])

\* The i-th change of the pack published a batch.
PublishedBatch(a, i) ==
  Len(AfterPulled(a, i).events) > Len(AfterPulled(a, i - 1).events)

\* What the subscribers read when the i-th change of the pack published
\* its batch.
ObservedAt(a, i) == AfterPulled(a, i).observed[Len(AfterPulled(a, i).observed)]

\* The observed state has the change executed on the clone and on the root
\* of the document before, the author of a Clear out of the online
\* clients, and the clocks synced with the ones of the change.
Mutated(before, change, observed) ==
  With(EnsureClone(before), LAMBDA e :
    /\ observed.clone = ChangeExecute(e.clone, change).root
    /\ observed.root = ChangeExecute(Leak(e.root, observed.clone), change).root
    /\ observed.presences = ExecutePresence(e.presences, change)
    /\ observed.onlineClients =
         IF change.presenceChange.type = "clear"
           THEN e.onlineClients \ {change.id.actor} ELSE e.onlineClients
    /\ observed.changeID = SyncClocks(e.changeID, change.id))

\* C21: each change of a pack publishes at most one batch; when it
\* publishes it, the subscribers read a document that has the change
\* executed on the clone and on the root, the online clients updated and the
\* changeID synced, which is the document applyChange returns; the batches
\* the document has published are these, in the order of the pack.
C21_MutationBeforePublication ==
  \A a \in Actors :
    AppliedChanges(a) =>
      /\ \A i \in 1..Len(Pulled(a)) :
           /\ Len(AfterPulled(a, i).events) <= Len(AfterPulled(a, i - 1).events) + 1
           /\ PublishedBatch(a, i) =>
                /\ Mutated(AfterPulled(a, i - 1), Pulled(a)[i], ObservedAt(a, i))
                /\ ObservedAt(a, i) = Observed(AfterPulled(a, i))
      /\ With(AfterPulled(a, Len(Pulled(a))), LAMBDA after :
           /\ Len(doc[a].observed) >= Len(after.observed)
           /\ SubSeq(doc[a].observed, 1, Len(after.observed)) = after.observed
           /\ SubSeq(doc[a].events, 1, Len(after.events)) = after.events)

\* A pack of two changes at least was applied: one published the events
\* Unwatched and left its author out of the online clients its subscribers
\* read, another one published a RemoteChange event.
C21_Witness ==
  \E a \in Actors :
    /\ AppliedChanges(a)
    /\ Len(Pulled(a)) >= 2
    /\ \E i, j \in 1..Len(Pulled(a)) :
         /\ PublishedBatch(a, i)
         /\ doc[a].events[Len(AfterPulled(a, i).events)][1].type = "unwatched"
         /\ Pulled(a)[i].id.actor \notin ObservedAt(a, i).onlineClients
         /\ Pulled(a)[i].id.actor \in AfterPulled(a, i - 1).onlineClients
         /\ PublishedBatch(a, j)
         /\ \E k \in 1..Len(doc[a].events[Len(AfterPulled(a, j).events)]) :
              doc[a].events[Len(AfterPulled(a, j).events)][k].type = "remote-change"

-----------------------------------------------------------------------------
(* Acknowledged local changes.                                             *)

\* The client is given the pack in flight to it, which has no snapshot, and
\* applyChangePack returns.
ChangesPackApplied(a) ==
  /\ inflight[a] # NoPack
  /\ ~inflight[a].hasSnapshot
  /\ inflight'[a] = NoPack
  /\ ~last'.call.threw

\* The RemoteChange events of the batches from the i-th on, as the pairs of
\* the actor and the clientSeq of their changes.
RECURSIVE RemoteChangesOf(_, _)
RemoteChangesOf(events, i) ==
  IF i > Len(events) THEN <<>>
  ELSE SelectSeq([j \in 1..Len(events[i]) |->
                    [type |-> events[i][j].type, actor |-> events[i][j].actor,
                     clientSeq |-> events[i][j].clientSeq]],
                 LAMBDA e : e.type = "remote-change")
       \o RemoteChangesOf(events, i + 1)

\* The places in the pack of the changes with operations an event is of.
PlacesOf(changes, e) ==
  {i \in 1..Len(changes) :
     /\ changes[i].id.actor = e.actor
     /\ changes[i].id.clientSeq = e.clientSeq
     /\ Len(changes[i].operations) > 0}

\* The events are of changes of the pack, one each, in the order of the pack.
InPackOrder(changes, events) ==
  /\ \A p \in 1..Len(events) : Cardinality(PlacesOf(changes, events[p])) = 1
  /\ \A p, q \in 1..Len(events) :
       p < q => \A i \in PlacesOf(changes, events[p]) :
                  \A j \in PlacesOf(changes, events[q]) : i < j

\* C22: after applyChangePack(pack) of a pack without a snapshot the local
\* changes are the former ones with a clientSeq above the one of the
\* checkpoint of the pack, in their order; the changes of the pack were
\* applied in the order of the pack: the text is the former one with them
\* executed in that order, and the RemoteChange events published are of
\* changes of the pack in that order.
C22_AcknowledgedDropped ==
  [][\A a \in Actors :
       ChangesPackApplied(a) =>
         /\ doc'[a].localChanges =
              Above(doc[a].localChanges, inflight[a].checkpoint.clientSeq)
         /\ ToSortedJSON(doc'[a].root.text) =
              ToSortedJSON(Replayed(doc[a].root, inflight[a].changes, 1).text)
         /\ InPackOrder(inflight[a].changes, RemoteChangesOf(doc'[a].events, 1))]_vars

\* A pack with a change that published a RemoteChange event was applied to
\* a document that had local changes the pack acknowledged and local
\* changes it did not.
C22_Witness ==
  \E a \in Actors :
    /\ AppliedChanges(a)
    /\ last.call.call = "response"
    /\ Len(Pulled(a)) >= 1
    /\ Len(RemoteChangesOf(doc[a].events, 1)) >= 1
    /\ Len(doc[a].localChanges) > 0
    /\ Len(doc[a].localChanges) < Len(Old.localChanges)

-----------------------------------------------------------------------------
(* Presence events of applyChange.                                         *)

\* The types of the presence events the i-th change of the pack published.
PresenceTypes(a, i) ==
  IF ~PublishedBatch(a, i) THEN <<>>
  ELSE With(doc[a].events[Len(AfterPulled(a, i).events)], LAMBDA batch :
         SelectSeq([j \in 1..Len(batch) |-> batch[j].type],
                   LAMBDA type : type \in {"watched", "presence-changed", "unwatched"}))

\* What the claim says of the i-th change of the pack: a Put publishes
\* Watched when the document had no presence of its author, who is online,
\* and PresenceChanged otherwise; a Clear publishes Unwatched and leaves
\* its author out of the online clients.
PresenceHandled(a, i) ==
  With(AfterPulled(a, i - 1), LAMBDA before :
  With(Pulled(a)[i], LAMBDA change :
    /\ change.presenceChange.type = "put" =>
         PresenceTypes(a, i) =
           IF change.id.actor \in before.onlineClients
                /\ ~before.presences[change.id.actor].has
             THEN <<"watched">> ELSE <<"presence-changed">>
    /\ change.presenceChange.type = "clear" =>
         /\ PresenceTypes(a, i) = <<"unwatched">>
         /\ change.id.actor \notin AfterPulled(a, i).onlineClients
    /\ change.presenceChange.type = "none" =>
         /\ PresenceTypes(a, i) = <<>>
         /\ AfterPulled(a, i).onlineClients = before.onlineClients))

\* C23 as stated: whoever the author is, a Put publishes Watched or
\* PresenceChanged and a Clear publishes Unwatched.
C23_PresenceEvents ==
  \A a \in Actors :
    AppliedChanges(a) => \A i \in 1..Len(Pulled(a)) : PresenceHandled(a, i)

\* C23: when the author of the change is among the online clients of the
\* document, a Put publishes Watched if the document has no presence of the
\* author and PresenceChanged if it has one, and a Clear publishes Unwatched
\* and takes the author out of the online clients; when the author is not
\* among them the change publishes no presence event and the online clients
\* stay as they are.
C23_PresenceEventsOfOnline ==
  \A a \in Actors :
    AppliedChanges(a) =>
      \A i \in 1..Len(Pulled(a)) :
        IF Pulled(a)[i].id.actor \in AfterPulled(a, i - 1).onlineClients
          THEN PresenceHandled(a, i)
          ELSE /\ PresenceTypes(a, i) = <<>>
               /\ AfterPulled(a, i).onlineClients = AfterPulled(a, i - 1).onlineClients

\* A pack was applied in which the author, who was online, set its first
\* presence and then cleared it: Watched and Unwatched were published.
C23_Witness ==
  \E a \in Actors :
    /\ AppliedChanges(a)
    /\ \E i, j \in 1..Len(Pulled(a)) :
         /\ i < j
         /\ Pulled(a)[i].presenceChange.type = "put"
         /\ PresenceTypes(a, i) = <<"watched">>
         /\ Pulled(a)[j].presenceChange.type = "clear"
         /\ PresenceTypes(a, j) = <<"unwatched">>
         /\ doc[a].onlineClients = {}

-----------------------------------------------------------------------------
(* Path subscription.                                                      *)

\* The path equals p or has the segments of p as its first segments.
OnOrUnder(path, p) ==
  \/ path = p
  \/ /\ Len(Split(p)) <= Len(Split(path))
     /\ SubSeq(Split(path), 1, Len(Split(p))) = Split(p)

\* The operations of an event that are on or under p.
OperationsUnder(event, p) ==
  SelectSeq(event.operations, LAMBDA op : OnOrUnder(op.path, p))

\* The calls of a subscriber with path p for the events of a batch from the
\* j-th on: one for each LocalChange or RemoteChange event that has an
\* operation on or under p, with these operations.
RECURSIVE CallsFor(_, _, _)
CallsFor(batch, j, p) ==
  IF j > Len(batch) THEN <<>>
  ELSE (IF batch[j].type \in {"local-change", "remote-change"}
             /\ Len(OperationsUnder(batch[j], p)) > 0
          THEN <<[batch[j] EXCEPT !.operations = OperationsUnder(batch[j], p)]>>
          ELSE <<>>)
       \o CallsFor(batch, j + 1, p)

\* The calls for the batches from the i-th on.
RECURSIVE CallsForAll(_, _, _)
CallsForAll(events, i, p) ==
  IF i > Len(events) THEN <<>>
  ELSE CallsFor(events[i], 1, p) \o CallsForAll(events, i + 1, p)

\* C24: a subscriber registered with the path p is called, for each
\* LocalChange or RemoteChange event published, with exactly the operations
\* whose path equals p or has p as a prefix on whole segments, and is not
\* called for an event none of whose operations match; "$.a" matches "$.a"
\* and "$.a.b" but not "$.ab" or "$".
C24_PathSubscription ==
  /\ \A a \in Actors :
       doc[a].target # NoTarget =>
         doc[a].delivered = CallsForAll(doc[a].events, 1, doc[a].target)
  /\ IsSameElementOrChildOf(<<"$", ".", "a">>, <<"$", ".", "a">>)
  /\ IsSameElementOrChildOf(<<"$", ".", "a", ".", "b">>, <<"$", ".", "a">>)
  /\ ~IsSameElementOrChildOf(<<"$", ".", "a", "b">>, <<"$", ".", "a">>)
  /\ ~IsSameElementOrChildOf(<<"$">>, <<"$", ".", "a">>)

\* The subscriber of "$.a" was called with the operation at "$.a.b" of an
\* event that has one at "$.ab" as well.
C24_Witness ==
  \E a \in Actors :
    /\ doc[a].target = <<"$", ".", "a">>
    /\ Len(doc[a].events) = 1
    /\ Len(doc[a].events[1]) = 1
    /\ Len(doc[a].events[1][1].operations) = 2
    /\ doc[a].events[1][1].operations[1].path = <<"$", ".", "a", ".", "b">>
    /\ doc[a].events[1][1].operations[2].path = <<"$", ".", "a", "b">>
    /\ Len(doc[a].delivered) = 1
    /\ Len(doc[a].delivered[1].operations) = 1

-----------------------------------------------------------------------------
(* Size accounting.                                                        *)

\* The data sizes of the nodes in the text, tombstones included, and of the
\* replaced attributes that are registered as GC pairs.
AggregateDataSize(root) == SumDataSize(root.text, 2) + root.attrGarbage

\* C25: the docSize accumulated on the root of a document (live and gc) is
\* the sum of getDataSize() over the nodes that were put into the text and
\* are not purged, tombstones included.
C25_SizeAccounting ==
  \A a \in Actors : TotalDocSize(doc[a].root) = AggregateDataSize(doc[a].root)

\* The same of the documents no style was executed on.
C25_SizeAccountingOfEdits ==
  \A a \in Actors :
    (\A p \in 1..Len(doc[a].root.text) :
       \A k \in AttrKeys : doc[a].root.text[p].value.attributes[k] = NoAttr)
      => TotalDocSize(doc[a].root) = AggregateDataSize(doc[a].root)

\* A text with a split node and a tombstone, and no attribute.
C25_WitnessOfEdits ==
  \E a \in Actors :
    /\ \A p \in 1..Len(doc[a].root.text) :
         \A k \in AttrKeys : doc[a].root.text[p].value.attributes[k] = NoAttr
    /\ \E p, q \in 2..Len(doc[a].root.text) :
         /\ p # q
         /\ doc[a].root.text[p].id.createdAt = doc[a].root.text[q].id.createdAt
         /\ IsRemoved(doc[a].root.text[p])
         /\ ~IsRemoved(doc[a].root.text[q])

----------------------------------------------------------------------------
(* The tickets of one context.                                             *)

\* The last call of the client was an update, an undo or a redo that
\* returned and appended one local change.
MadeOneChange(a) ==
  /\ last.call.actor = a
  /\ last.call.call \in {"update", "undo", "redo"}
  /\ ~last.call.threw
  /\ Len(doc[a].localChanges) = Len(Old.localChanges) + 1

\* The mutator calls the proxy and the presence only.
ProxyOnly(mutator) ==
  \A i \in 1..Len(mutator.ops) :
    mutator.ops[i].type \in {"edit", "style", "presence", "presence-history", "clear"}

\* The root after the operations are executed one after the other by the
\* delimiters of their tickets, from the given delimiter on.
RECURSIVE InIssueOrder(_, _, _, _)
InIssueOrder(root, operations, versionVector, delimiter) ==
  LET next == {i \in 1..Len(operations) : operations[i].executedAt.delimiter = delimiter}
  IN IF next = {} THEN root
     ELSE InIssueOrder(ExecuteOperation(root, operations[CHOOSE i \in next : TRUE],
                                        versionVector).root,
                       operations, versionVector, delimiter + 1)

\* C26: the tickets one ChangeContext issues all carry the lamport and the
\* actor of nextID, their delimiters go up by one from InitialDelimiter + 1,
\* so they are pairwise distinct and ordered as they were issued; and the
\* operations are executed in that order on the clone and on the root.
C26_TicketOrder ==
  \A a \in Actors :
    MadeOneChange(a) =>
      LET change == LastLocalChange(doc[a])
          operations == change.operations
          nextID == ChangeIDNext(Old.changeID, FALSE)
          clone == EnsureClone(Old).clone
      IN /\ \A i \in 1..Len(operations) :
              operations[i].executedAt
                = Ticket(nextID.lamport, InitialDelimiter + i, nextID.actor)
         /\ \A i, j \in 1..Len(operations) :
              i < j => /\ operations[i].executedAt # operations[j].executedAt
                       /\ After(operations[j].executedAt, operations[i].executedAt)
         /\ (last.call.call = "update" /\ ProxyOnly(last.call.input)) =>
              /\ doc[a].clone
                   = InIssueOrder(clone, operations, NoVV, InitialDelimiter + 1)
              /\ doc[a].root
                   = InIssueOrder(Leak(Old.root, doc[a].clone), operations,
                                  change.id.versionVector, InitialDelimiter + 1)
         /\ last.call.call \in {"undo", "redo"} =>
              /\ doc[a].clone
                   = InIssueOrder(clone, operations, change.id.versionVector,
                                  InitialDelimiter + 1)
              /\ doc[a].root
                   = InIssueOrder(Leak(Old.root, doc[a].clone), operations,
                                  change.id.versionVector, InitialDelimiter + 1)

\* An update whose mutator inserted and then deleted what it had put in
\* has been made.
C26_Witness ==
  \E a \in Actors :
    /\ MadeOneChange(a)
    /\ last.call.call = "update"
    /\ Len(LastLocalChange(doc[a]).operations) = 2
    /\ LastLocalChange(doc[a]).operations[2].content = <<>>
    /\ \E p \in 1..Len(doc[a].root.text) :
         doc[a].root.text[p].removedAt = LastLocalChange(doc[a]).operations[2].executedAt

\* An undo has reissued two operations.
UndoOfTwo ==
  \E a \in Actors :
    /\ MadeOneChange(a)
    /\ last.call.call = "undo"
    /\ Len(LastLocalChange(doc[a]).operations) = 2

----------------------------------------------------------------------------
(* The history bookkeeping of update.                                      *)

\* The mutator leaves a reverse presence key: a presence.set with
\* addToHistory of a key no later presence.set without it takes out.
LeavesReversePresence(mutator) ==
  \E i \in 1..Len(mutator.ops) :
    /\ mutator.ops[i].type = "presence-history"
    /\ \E kv \in mutator.ops[i].presence :
         \A j \in (i + 1)..Len(mutator.ops) :
           mutator.ops[j].type = "presence"
             => \A other \in mutator.ops[j].presence : other[1] # kv[1]

\* The operation infos of the LocalChange event the last call published,
\* none when it published no such event.
LocalOpInfos(a) ==
  LET at == {i \in 1..Len(doc[a].events) :
               \E j \in 1..Len(doc[a].events[i]) :
                 doc[a].events[i][j].type = "local-change"}
  IN IF at = {} THEN <<>>
     ELSE LET batch == doc[a].events[CHOOSE i \in at : TRUE]
          IN (CHOOSE e \in {batch[j] : j \in 1..Len(batch)} :
                e.type = "local-change").operations

\* The last call was an update of the client, by a mutator that calls the
\* proxy and the presence only, that returned with a change.
UpdatedWithChange(a) ==
  /\ MadeOneChange(a)
  /\ last.call.call = "update"
  /\ ProxyOnly(last.call.input)

\* The reverse operations the change of the last update gave when it was
\* executed on the root.
ReverseOperations(a) ==
  ChangeExecute(Leak(Old.root, doc[a].clone), LastLocalChange(doc[a])).reverseOps

\* C27: an update that returns with a change pushes exactly one entry onto
\* the undo stack iff its reverse operations, the reversal of the presence
\* among them, are not empty, and clears the redo stack iff its operation
\* infos are not empty; an update of the presence alone leaves the redo
\* stack as it was.
C27_HistoryBookkeeping ==
  \A a \in Actors :
    UpdatedWithChange(a) =>
      LET reverse == ReverseOperations(a)
          presence == LeavesReversePresence(last.call.input)
          undo == doc[a].undoStack
      IN /\ IF Len(reverse) > 0 \/ presence
              THEN /\ Len(undo) = Len(Old.undoStack) + 1
                   /\ SubSeq(undo, 1, Len(Old.undoStack)) = Old.undoStack
                   /\ Len(undo[Len(undo)]) = Len(reverse) + (IF presence THEN 1 ELSE 0)
                   /\ SubSeq(undo[Len(undo)], 1, Len(reverse)) = reverse
                   /\ presence =>
                        undo[Len(undo)][Len(reverse) + 1].type = "presence"
              ELSE undo = Old.undoStack
         /\ IF Len(LocalOpInfos(a)) > 0
              THEN doc[a].redoStack = <<>>
              ELSE doc[a].redoStack = Old.redoStack
         /\ Len(LastLocalChange(doc[a]).operations) = 0
              => doc[a].redoStack = Old.redoStack

\* After an undo, an update that only sets the presence with addToHistory
\* has pushed the reversal of the presence alone onto the undo stack and
\* left the redo stack, which is not empty.
C27_Witness ==
  \E a \in Actors :
    /\ UpdatedWithChange(a)
    /\ Len(LastLocalChange(doc[a]).operations) = 0
    /\ LeavesReversePresence(last.call.input)
    /\ Len(doc[a].undoStack) = Len(Old.undoStack) + 1
    /\ Len(doc[a].undoStack[Len(doc[a].undoStack)]) = 1
    /\ doc[a].redoStack # <<>>
    /\ doc[a].redoStack = Old.redoStack

----------------------------------------------------------------------------
(* The deletable rule of edit.                                             *)

\* What the last call executed on the text of a replica, one operation at
\* a time: the text before, the operation, the version vector it was
\* executed with, and the text after.  An update executes the operation of
\* its mutator on the clone without version vector; applyChangePack
\* executes the operation of each change of the pack on the root with the
\* version vector of the change.
Executions(a) ==
  (IF Updated(a) /\ Len(doc[a].localChanges) = Len(Old.localChanges) + 1
        /\ Len(LastLocalChange(doc[a]).operations) = 1
     THEN {[before |-> EnsureClone(Old).clone.text,
            op |-> LastLocalChange(doc[a]).operations[1],
            versionVector |-> NoVV,
            after |-> doc[a].clone.text]}
     ELSE {})
  \cup
  (IF Responded(a)
     THEN {[before |-> AfterPulled(a, n - 1).root.text,
            op |-> Pulled(a)[n].operations[1],
            versionVector |-> Pulled(a)[n].id.versionVector,
            after |-> AfterPulled(a, n).root.text] :
             n \in {m \in 1..Len(Pulled(a)) : Len(Pulled(a)[m].operations) = 1}}
     ELSE {})

\* The nodes between the two split points of a range: the text once both
\* ends are split, the position of the node left of the range, and the
\* positions of the candidates in it.
Between(nodes, op) ==
  With(FindNodeWithSplit(nodes, op.toPos, op.executedAt), LAMBDA t :
  With(FindNodeWithSplit(t.nodes, op.fromPos, op.executedAt), LAMBDA f :
    [nodes |-> f.nodes,
     left |-> f.left,
     candidates |->
       FindBetween(f.nodes, f.right,
                   IF f.at # 0 /\ t.right >= f.at THEN t.right + 1 ELSE t.right)]))

\* The node of the text with the given id.
NodeWithID(nodes, id) == nodes[CHOOSE q \in 1..Len(nodes) : nodes[q].id = id]

\* Every candidate of every edit the last call executed is, once the edit
\* is done, as the rule tells: rule(node, editedAt, clientLamportAtChange)
\* says whether the node is to be a tombstone of this edit; a node that is
\* not keeps the removedAt it had.
CandidatesFollow(rule(_, _, _)) ==
  \A a \in Actors : \A x \in Executions(a) :
    x.op.type = "edit" =>
      With(Between(x.before, x.op), LAMBDA b :
        \A i \in 1..Len(b.candidates) :
          LET node == b.nodes[b.candidates[i]]
              now == NodeWithID(x.after, node.id)
          IN IF rule(node, x.op.executedAt,
                     ClientLamportAtChange(x.versionVector, node.id.createdAt.actor))
               THEN now.removedAt = x.op.executedAt
               ELSE now.removedAt = node.removedAt)

\* C28 as it reads: a candidate between the two split points is made a
\* tombstone by an edit with ticket editedAt exactly when its
\* createdAt.lamport <= clientLamportAtChange and its removedAt is empty or
\* editedAt is after its removedAt; every other candidate is kept.
C28_DeletableRule ==
  CandidatesFollow(LAMBDA node, editedAt, clientLamportAtChange :
                     /\ node.id.createdAt.lamport <= clientLamportAtChange
                     /\ (~IsRemoved(node) \/ After(editedAt, node.removedAt)))

\* C28, amended: a candidate between the two split points is made a
\* tombstone by an edit with ticket editedAt exactly when its
\* createdAt.lamport <= clientLamportAtChange and its removedAt is empty;
\* every other candidate is kept, a tombstone with the removedAt it has,
\* be it before editedAt or after.
C28_DeletableRuleOfLive ==
  CandidatesFollow(LAMBDA node, editedAt, clientLamportAtChange :
                     /\ node.id.createdAt.lamport <= clientLamportAtChange
                     /\ ~IsRemoved(node))

\* A replica has applied a remote edit over three candidates: one it made
\* a tombstone, one that was a tombstone of an earlier ticket and kept its
\* removedAt, and one the version vector does not cover.
C28_Witness ==
  \E a \in Actors : \E x \in Executions(a) :
    /\ x.op.type = "edit"
    /\ x.versionVector # NoVV
    /\ With(Between(x.before, x.op), LAMBDA b :
         /\ \E i \in 1..Len(b.candidates) :
              LET node == b.nodes[b.candidates[i]]
              IN /\ ~IsRemoved(node)
                 /\ Seen(x.versionVector, node)
                 /\ NodeWithID(x.after, node.id).removedAt = x.op.executedAt
         /\ \E i \in 1..Len(b.candidates) :
              LET node == b.nodes[b.candidates[i]]
              IN /\ IsRemoved(node)
                 /\ After(x.op.executedAt, node.removedAt)
                 /\ Seen(x.versionVector, node)
                 /\ NodeWithID(x.after, node.id).removedAt = node.removedAt
         /\ \E i \in 1..Len(b.candidates) :
              LET node == b.nodes[b.candidates[i]]
              IN /\ ~Seen(x.versionVector, node)
                 /\ ~IsRemoved(NodeWithID(x.after, node.id)))

----------------------------------------------------------------------------
(* The nodes setStyle styles.                                              *)

\* The operation infos of the event the last call published for a change,
\* none when it published no event for it.
OpInfosOf(a, change) ==
  LET of == {e \in UNION {{doc[a].events[i][j] : j \in 1..Len(doc[a].events[i])} :
                            i \in 1..Len(doc[a].events)} :
               /\ e.type \in {"local-change", "remote-change"}
               /\ e.actor = change.actor
               /\ e.clientSeq = change.clientSeq}
  IN IF of = {} THEN <<>> ELSE (CHOOSE e \in of : TRUE).operations

\* The change of an operation the last call executed on a replica.
ChangeIDOfOperation(a, op) ==
  (CHOOSE c \in AllChanges :
     \E i \in 1..Len(c.operations) : c.operations[i] = op).id

\* Every node between the two split points of every style the last call
\* executed is, once the style is done, as the rule tells:
\* rule(node, editedAt, clientLamportAtChange) says whether the node is
\* styled.  A styled node has every attribute of the operation set with
\* setAttr at editedAt, and the operation infos hold one style entry with
\* its index range and the attributes; a node that is not styled has the
\* value it had, and the entries are the ones of the styled nodes.
StyledFollow(rule(_, _, _)) ==
  \A a \in Actors : \A x \in Executions(a) :
    x.op.type = "style" =>
      With(Between(x.before, x.op), LAMBDA b :
        LET entries == OpInfosOf(a, ChangeIDOfOperation(a, x.op))
            styled(p) == rule(b.nodes[p], x.op.executedAt,
                              ClientLamportAtChange(x.versionVector,
                                                    b.nodes[p].id.createdAt.actor))
            Entry(p) == [type |-> "style", from |-> IndexOf(b.nodes, p),
                         to |-> IndexOf(b.nodes, p) + GetLength(b.nodes[p]),
                         value |-> x.op.attributes, path |-> TextPath]
        IN /\ \A i \in 1..Len(b.candidates) :
                LET p == b.candidates[i]
                    now == NodeWithID(x.after, b.nodes[p].id)
                IN IF styled(p)
                     THEN /\ now.value = SetAttrs(b.nodes[p].value, x.op.attributes,
                                                  x.op.executedAt)
                          /\ Cardinality({j \in 1..Len(entries) : entries[j] = Entry(p)}) = 1
                     ELSE now.value = b.nodes[p].value
           /\ Len(entries)
                = Cardinality({i \in 1..Len(b.candidates) : styled(b.candidates[i])}))

\* C29 as it reads: for each node of the range for which canStyle holds
\* (created within the knowledge of the editor, and not removed or removed
\* before editedAt) setStyle applies setAttr(key, value, editedAt) for every
\* attribute given and emits one style change entry with the current index
\* range of the node; the nodes for which canStyle fails are untouched.
C29_StyleCoverage ==
  StyledFollow(LAMBDA node, editedAt, clientLamportAtChange :
                 /\ node.id.createdAt.lamport <= clientLamportAtChange
                 /\ (~IsRemoved(node) \/ After(editedAt, node.removedAt)))

\* C29, amended: for each node of the range that is not removed and for
\* which canStyle holds, setStyle applies setAttr(key, value, editedAt) for
\* every attribute given and emits one style change entry with the current
\* index range of the node; the nodes for which canStyle fails and the
\* removed nodes are untouched and get no entry.
C29_StyleCoverageOfLive ==
  StyledFollow(LAMBDA node, editedAt, clientLamportAtChange :
                 /\ node.id.createdAt.lamport <= clientLamportAtChange
                 /\ ~IsRemoved(node))

\* A replica has applied a remote style over a live node, which got the
\* attribute and an entry, and over a tombstone of an earlier ticket, which
\* was left as it was.
C29_Witness ==
  \E a \in Actors : \E x \in Executions(a) :
    /\ x.op.type = "style"
    /\ x.versionVector # NoVV
    /\ Len(OpInfosOf(a, ChangeIDOfOperation(a, x.op))) > 0
    /\ With(Between(x.before, x.op), LAMBDA b :
         /\ \E i \in 1..Len(b.candidates) :
              LET node == b.nodes[b.candidates[i]]
              IN /\ ~IsRemoved(node)
                 /\ Seen(x.versionVector, node)
                 /\ \A kv \in x.op.attributes :
                      NodeWithID(x.after, node.id).value.attributes[kv[1]]
                        = [value |-> kv[2], updatedAt |-> x.op.executedAt]
         /\ \E i \in 1..Len(b.candidates) :
              LET node == b.nodes[b.candidates[i]]
              IN /\ IsRemoved(node)
                 /\ After(x.op.executedAt, node.removedAt)
                 /\ Seen(x.versionVector, node)
                 /\ NodeWithID(x.after, node.id).value = node.value)

----------------------------------------------------------------------------
(* The value changes of an edit.                                           *)

\* The ValueChanges RGATreeSplit.edit returns for an edit the last call
\* executed.
ValueChangesOf(x) ==
  TextEdit(x.before, <<x.op.fromPos, x.op.toPos>>, x.op.content, x.op.executedAt,
           x.op.attributes, x.versionVector).changes

\* The candidate at place i of the candidates was made a tombstone by the
\* edit.
DeletedAt(x, b, i) ==
  /\ ~IsRemoved(b.nodes[b.candidates[i]])
  /\ NodeWithID(x.after, b.nodes[b.candidates[i]].id).removedAt = x.op.executedAt

\* The maximal runs of consecutive deleted candidates, as <<first, last>>
\* places.
Runs(x, b) ==
  {r \in (1..Len(b.candidates)) \X (1..Len(b.candidates)) :
     /\ r[1] <= r[2]
     /\ \A k \in r[1]..r[2] : DeletedAt(x, b, k)
     /\ r[1] = 1 \/ ~DeletedAt(x, b, r[1] - 1)
     /\ r[2] = Len(b.candidates) \/ ~DeletedAt(x, b, r[2] + 1)}

\* The index range of a run in the text before the edit.
RangeOfRun(b, r) ==
  <<IndexOf(b.nodes, b.candidates[r[1]]),
    IndexOf(b.nodes, b.candidates[r[2]]) + GetLength(b.nodes[b.candidates[r[2]]])>>

\* The index the content is inserted at: the one after the node left of
\* the range, before the edit.
InsertionIndex(b) == IndexOf(b.nodes, b.left) + GetLength(b.nodes[b.left])

\* The changes are one per maximal run, with the index range the run had
\* before the edit; the content, when there is one, is carried by the last
\* change of the list, which is the change of the run that begins at the
\* insertion index if there is one and {from = to = insertionIndex} if not.
ChangesOfRuns(x, b, changes) ==
  LET ranges == {RangeOfRun(b, r) : r \in Runs(x, b)}
      idx == InsertionIndex(b)
      hasValue == Len(x.op.content) > 0
      merged == \E range \in ranges : range[1] = idx
      expected == ranges \cup (IF hasValue /\ ~merged THEN {<<idx, idx>>} ELSE {})
  IN /\ {<<changes[k].from, changes[k].to>> : k \in 1..Len(changes)} = expected
     /\ Len(changes) = Cardinality(expected)
     /\ \A k \in 1..Len(changes) :
          /\ changes[k].actor = x.op.executedAt.actor
          /\ changes[k].hasValue = (hasValue /\ k = Len(changes))
     /\ hasValue =>
          /\ changes[Len(changes)].from = idx
          /\ ~merged => changes[Len(changes)].to = idx

\* An edit with content over a range of which every candidate is deleted
\* gives the one change {f, t, value}, and an edit with content over an
\* empty range at i the one change {i, i, value}.
OneChange(x, b, changes) ==
  LET n == Len(b.candidates)
      idx == InsertionIndex(b)
      whole == [actor |-> x.op.executedAt.actor, from |-> idx,
                to |-> IndexOf(b.nodes, b.candidates[n])
                         + GetLength(b.nodes[b.candidates[n]]),
                hasValue |-> TRUE]
  IN /\ (Len(x.op.content) > 0 /\ n > 0 /\ \A i \in 1..n : DeletedAt(x, b, i))
          => changes = <<whole>>
     /\ (Len(x.op.content) > 0 /\ x.op.fromPos = x.op.toPos)
          => changes = <<[actor |-> x.op.executedAt.actor, from |-> idx, to |-> idx,
                          hasValue |-> TRUE]>>

\* C30: edit emits one ValueChange {from, to, actor} per maximal run of
\* consecutive deleted candidates, with the indexes of before the
\* insertion; a value is merged into the last change of the list if that
\* change is at the insertion index, otherwise {from = to = insertionIndex,
\* value} is appended.  Hence replacing a visible range [f, t) whose
\* candidates are all deleted with content yields exactly one change
\* {f, t, value}, and an insertion at i exactly one change {i, i, value}.
C30_ValueChanges ==
  \A a \in Actors : \A x \in Executions(a) :
    x.op.type = "edit" =>
      With(Between(x.before, x.op), LAMBDA b :
      With(ValueChangesOf(x), LAMBDA changes :
        /\ ChangesOfRuns(x, b, changes)
        /\ OneChange(x, b, changes)))

----------------------------------------------------------------------------
(* The structure of a split.                                               *)

\* What splitNode makes of the node at position p split at offset k.  At an
\* interior offset: one node more; the node keeps its id and the first k
\* letters, the node after it has the id k further, the rest of the letters
\* and the removedAt of the node; both are in the index of ids and weigh
\* their length; the new node has the node as insPrev, and the node that
\* had the node as insPrev now has the new one; every other node keeps its
\* id, value and removedAt.  At offset 0 and at the end: nothing changes.
SplitStructure(nodes, p, k) ==
  With(SplitNode(nodes, p, k), LAMBDA s :
    LET node == nodes[p]
        l == s.nodes[p]
        r == s.nodes[p + 1]
    IN IF k = 0 \/ k = GetContentLength(node)
         THEN s.ok /\ ~s.split /\ s.nodes = nodes
         ELSE /\ s.ok /\ s.split
              /\ Len(s.nodes) = Len(nodes) + 1
              /\ l.id = node.id
              /\ r.id = NodeID(node.id.createdAt, node.id.offset + k)
              /\ Len(l.value.content) = k
              /\ l.value.content \o r.value.content = node.value.content
              /\ l.removedAt = node.removedAt
              /\ r.removedAt = node.removedAt
              /\ l.inID /\ r.inID
              /\ FindFloorNode(s.nodes, l.id) = p
              /\ FindFloorNode(s.nodes, r.id) = p + 1
              /\ l.w = GetLength(l) /\ r.w = GetLength(r)
              /\ r.insPrev = p
              /\ l.insPrev = ShiftUp(node.insPrev, p)
              /\ node.insNext # 0 => s.nodes[ShiftUp(node.insNext, p)].insPrev = p + 1
              /\ \A q \in 1..Len(nodes) :
                   q # p => /\ s.nodes[ShiftUp(q, p)].id = nodes[q].id
                            /\ s.nodes[ShiftUp(q, p)].value = nodes[q].value
                            /\ s.nodes[ShiftUp(q, p)].removedAt = nodes[q].removedAt)

\* Following insPrev from a node to one of the same createdAt leads to a
\* smaller offset.
InsPrevSmaller(nodes) ==
  \A q \in 1..Len(nodes) :
    (nodes[q].insPrev # 0
       /\ nodes[nodes[q].insPrev].id.createdAt = nodes[q].id.createdAt)
      => nodes[nodes[q].insPrev].id.offset < nodes[q].id.offset

\* C31: splitting a node at an interior offset k replaces it by two
\* list-adjacent nodes with the same createdAt, ids offset o and o + k, the
\* two halves of the content, the right half inheriting removedAt, both in
\* the index of ids and in the index of weights, the right half's insPrev
\* being the left half and the former insNext of the node having the right
\* half as insPrev; splitting at offset 0 or at the end changes nothing.
\* Hence, among nodes of one createdAt, insPrev leads to a smaller offset.
\* Checked of every node of every text a document holds, at every offset.
C31_SplitStructure ==
  \A a \in Actors : \A nodes \in Texts(a) :
    /\ InsPrevSmaller(nodes)
    /\ \A p \in 2..Len(nodes) : \A k \in 0..GetContentLength(nodes[p]) :
         /\ SplitStructure(nodes, p, k)
         /\ InsPrevSmaller(SplitNode(nodes, p, k).nodes)

\* A replica has applied a remote operation whose split cut a tombstone
\* that had an insNext in two: the right half is a tombstone with the same
\* removedAt, and the former insNext has it as insPrev.
C31_Witness ==
  \E a \in Actors : \E x \in Executions(a) :
    With(FindNodeWithSplit(x.before, x.op.toPos, x.op.executedAt), LAMBDA t :
    With(FindNodeWithSplit(t.nodes, x.op.fromPos, x.op.executedAt), LAMBDA f :
      \E s \in {t, f} :
        /\ s.ok /\ s.at # 0
        /\ IsRemoved(s.nodes[s.at])
        /\ s.nodes[s.at].removedAt = s.nodes[s.at - 1].removedAt
        /\ s.nodes[s.at].insPrev = s.at - 1
        /\ s.nodes[s.at].insNext # 0
        /\ s.nodes[s.nodes[s.at].insNext].insPrev = s.at
        /\ \E q \in 1..Len(x.after) : x.after[q].id = s.nodes[s.at].id))

----------------------------------------------------------------------------
(* The visible index.                                                      *)

\* The content lengths of the nodes before position p that are not removed.
RECURSIVE VisibleBefore(_, _)
VisibleBefore(nodes, p) ==
  IF p <= 1 THEN 0
  ELSE VisibleBefore(nodes, p - 1)
       + (IF IsRemoved(nodes[p - 1]) THEN 0 ELSE GetContentLength(nodes[p - 1]))

\* The index of the start of every node that is not removed is the length
\* of the visible content before it; every position inside a tombstone has
\* the index of the tombstone, which is the length of the visible content
\* before it as well; and the length of the text is the one of its string.
VisibleIndex(nodes) ==
  /\ \A p \in 2..Len(nodes) :
       IF ~IsRemoved(nodes[p])
         THEN /\ PosToIndex(nodes, Pos(nodes[p].id, 0), FALSE) = VisibleBefore(nodes, p)
              /\ IndexOf(nodes, p) = VisibleBefore(nodes, p)
         ELSE \A k \in 0..(GetContentLength(nodes[p]) - 1) :
                PosToIndex(nodes, Pos(nodes[p].id, k), FALSE) = VisibleBefore(nodes, p)
  /\ TreeLength(nodes) = Len(TextToString(nodes))

\* C32: after any sequence of edits, splits, style operations and purges,
\* the index reported for the start of a live node is the sum of the
\* content lengths of the non-removed nodes before it in list order, a
\* position of a tombstone maps to the index of the next visible character
\* boundary with the offset collapsed to 0, and the length of the text is
\* the length of toString(); in the root and in the clone of every
\* document.
C32_VisibleIndex == \A a \in Actors : \A nodes \in Texts(a) : VisibleIndex(nodes)

\* A text with a live node, then a tombstone of two letters, then the live
\* rest of the node the tombstone was split from: the position one letter
\* into the tombstone has the index of the start of the rest.
C32_Witness ==
  \E a \in Actors : \E nodes \in Texts(a) :
    \E p \in 2..Len(nodes) : \E q \in 2..Len(nodes) : \E r \in 2..Len(nodes) :
      /\ p < q /\ q < r
      /\ ~IsRemoved(nodes[p])
      /\ IsRemoved(nodes[q]) /\ GetContentLength(nodes[q]) >= 2
      /\ ~IsRemoved(nodes[r]) /\ nodes[r].insPrev = q
      /\ PosToIndex(nodes, Pos(nodes[q].id, 1), FALSE) = IndexOf(nodes, r)
      /\ IndexOf(nodes, r) > 0

----------------------------------------------------------------------------
(* StyleOperation.execute and its parent.                                  *)

\* The createdAt a StyleOperation of a change names as its parent: the one
\* of the Text, the one of the root object, and one no element is
\* registered under.
Parents == {TextCreatedAt, InitialTimeTicket, Ticket(0, 2, InitialActorID)}

\* A change of another client that has seen all the document has: one
\* StyleOperation over the index range [from, to) of the text, on the
\* element created at parent.
StyleChangeOf(d, author, parent, from, to) ==
  LET range == IndexRangeToPosRange(d.root.text, from, to).range
      lamport == d.changeID.lamport + 1
      id == ChangeIDOf(1, lamport, author,
                       [d.changeID.versionVector EXCEPT ![author] = lamport])
  IN ChangeOf(id, <<[Operation("style", range[1], range[2], <<>>,
                               {<<"b", StyleValue(author)>>},
                               CreateTimeTicket(id, InitialDelimiter + 1))
                       EXCEPT !.parentCreatedAt = parent]>>)

\* document.applyChange(change, OpSource.Remote) with a style change of the
\* other client.
ApplyChange(a) ==
  /\ CanCall(a)
  /\ \E parent \in Parents :
     \E from \in 0..TreeLength(doc[a].root.text) :
     \E to \in (from + 1)..TreeLength(doc[a].root.text) :
     \E b \in Actors \ {a} :
     \E c \in {StyleChangeOf(doc[a], b, parent, from, to)} :
     \E r \in {DocApplyChange([doc[a] EXCEPT !.events = <<>>, !.observed = <<>>,
                                             !.delivered = <<>>], c, "remote")} :
       /\ doc' = [doc EXCEPT ![a] = r.doc]
       /\ last' = LastOf(CallOf("apply", a, ~r.ok,
                                [ops |-> <<>>, throws |-> FALSE, change |-> c],
                                ~doc[a].hasClone, Before(doc[a])),
                         NoCall, NoGC)
  /\ quota' = Spent(a)
  /\ UNCHANGED <<server, inflight, typing>>

\* One document with the text "abc": its client inserts, deletes and
\* styles, and changes of the other client are applied to it.
InitOperation ==
  InitWith(<<"a", "b", "c">>,
           QuotaOf(MaxCalls, [a \in Actors |-> IF a = "A" THEN MaxCalls ELSE 0], 0),
           Typing({"insert", "delete", "style"}))

NextOperation ==
  \/ \E a \in Actors : Update(a)
  \/ \E a \in Actors : ApplyChange(a)

SpecOperation == InitOperation /\ [][NextOperation]_vars

\* The last call is an applyChange of client a.
AppliedChange(a) == last.call.call = "apply" /\ last.call.actor = a

\* The operation infos a document has published since the last call began.
PublishedOpInfos(d) == IF HasLastEvent(d) THEN LastEvent(d).operations ELSE <<>>

\* C33: StyleOperation.execute fails with InvalidArgument when no element
\* is registered under parentCreatedAt or when the element found is not a
\* Text, and in both cases the root (content, attributes, size counters, GC
\* pairs) is left unchanged, the clone of the document and its root alike,
\* and nothing is published; on success it returns one 'style' opInfo per
\* style change, with the path of the parent.
C33_StyleExecuteFails ==
  \A a \in Actors :
    AppliedChange(a) =>
      LET c == last.call.input.change
          op == c.operations[1]
      IN With(EnsureClone(Old), LAMBDA e :
         With(StyleExecute(e.clone, op, c.id.versionVector), LAMBDA r :
           /\ FindByCreatedAt(e.clone, op.parentCreatedAt) # "CRDTText"
                => /\ last.call.threw
                   /\ ~r.ok /\ r.code = "InvalidArgument"
                   /\ doc[a].root = Old.root
                   /\ doc[a].clone = e.clone
                   /\ PublishedOpInfos(doc[a]) = <<>>
           /\ FindByCreatedAt(e.clone, op.parentCreatedAt) = "CRDTText"
                => With(SetStyle(Old.root.text, <<op.fromPos, op.toPos>>, op.attributes,
                                 op.executedAt, c.id.versionVector), LAMBDA s :
                     /\ s.ok /\ r.ok /\ ~last.call.threw
                     /\ PublishedOpInfos(doc[a])
                          = [i \in 1..Len(s.changes) |->
                               [type |-> "style", from |-> s.changes[i].from,
                                to |-> s.changes[i].to, value |-> op.attributes,
                                path |-> TextPath]])))

\* A style change on an element that is not registered was applied to a
\* document whose text has a tombstone, a styled node and garbage, and it
\* threw.
C33_Witness ==
  \E a \in Actors :
    /\ AppliedChange(a)
    /\ last.call.threw
    /\ FindByCreatedAt(Old.root, last.call.input.change.operations[1].parentCreatedAt)
         = "undefined"
    /\ Old.root.gcPairs # {}
    /\ \E p \in 2..Len(Old.root.text) :
         Old.root.text[p].value.attributes["b"] # NoAttr

\* A style change on the root object was applied and threw.
StyledTheObject ==
  \E a \in Actors :
    /\ AppliedChange(a)
    /\ last.call.threw
    /\ FindByCreatedAt(Old.root, last.call.input.change.operations[1].parentCreatedAt)
         = "CRDTObject"

\* A style change on the text was applied and published two style entries.
StyledTwoNodes ==
  \E a \in Actors :
    /\ AppliedChange(a)
    /\ ~last.call.threw
    /\ Len(PublishedOpInfos(doc[a])) = 2

----------------------------------------------------------------------------
(* The clone and the root.                                                 *)

\* getGarbageLen: the registered GC pairs, nodes of the text and replaced
\* attributes.
GarbageLen(root) == Cardinality(root.gcPairs) + root.attrGarbage \div AttrDataSize

\* Two roots hold the same text: the same content and attributes
\* (toSortedJSON), the same tombstones, and as much garbage.
Agree(root, clone) ==
  /\ ToSortedJSON(clone.text) = ToSortedJSON(root.text)
  /\ Tombstones(clone.text) = Tombstones(root.text)
  /\ GarbageLen(clone) = GarbageLen(root)

\* C34: whenever a document has a clone and no update, undo, redo or
\* applyChange is in progress, the root of the clone and the authoritative
\* root hold the same text content, the same attributes and the same set of
\* tombstones (equal toSortedJSON and equal garbage length), after any
\* sequence of successful or failed updates, undo and redo, remote changes,
\* snapshots and garbage collections.
C34_CloneAgrees ==
  \A a \in Actors : doc[a].hasClone => Agree(doc[a].root, doc[a].clone)

----------------------------------------------------------------------------
(* Tombstones are permanent.                                               *)

\* Every letter of every tombstone of the text before is, in the text
\* after, a letter of a tombstone with the same createdAt and the same
\* removedAt: the tombstone itself or the nodes it was split into.
Permanent(before, after) ==
  \A p \in 2..Len(before) :
    IsRemoved(before[p]) =>
      \A k \in 0..(GetContentLength(before[p]) - 1) :
        \E q \in 2..Len(after) :
          /\ after[q].id.createdAt = before[p].id.createdAt
          /\ after[q].id.offset <= before[p].id.offset + k
          /\ before[p].id.offset + k < after[q].id.offset + GetContentLength(after[q])
          /\ after[q].removedAt = before[p].removedAt

\* The ids of the tombstones of a text.
TombstoneIDs(nodes) == {nodes[p].id : p \in {q \in 2..Len(nodes) : IsRemoved(nodes[q])}}

\* The last call is an update, an undo or a redo of client a that returned.
CalledLocally(a) ==
  /\ last.call.call \in {"update", "undo", "redo"}
  /\ last.call.actor = a
  /\ ~last.call.threw

\* C35: once a node of an RGATreeSplit has removedAt set, no later edit or
\* style, local or remote, with whatever ticket and version vector, changes
\* or clears that removedAt or returns the node again as a GC pair, and a
\* node made by splitting a tombstone is a tombstone with the same
\* removedAt; update, undo and redo purge nothing, so the tombstones of the
\* root before the call are all there after it.
C35_TombstonesPermanent ==
  \A a \in Actors :
    /\ \A x \in Executions(a) :
         /\ Permanent(x.before, x.after)
         /\ x.op.type = "edit" =>
              With(TextEdit(x.before, <<x.op.fromPos, x.op.toPos>>, x.op.content,
                            x.op.executedAt, x.op.attributes, x.versionVector),
                   LAMBDA r :
                /\ r.pairs \cap TombstoneIDs(x.before) = {}
                /\ \A id \in TombstoneIDs(r.nodes) \ r.pairs :
                     \E p \in 2..Len(x.before) :
                       /\ IsRemoved(x.before[p])
                       /\ x.before[p].id.createdAt = id.createdAt)
    /\ CalledLocally(a) =>
         /\ Permanent(Old.root.text, doc[a].root.text)
         /\ Old.hasClone /\ doc[a].hasClone
              => Permanent(Old.clone.text, doc[a].clone.text)

\* A replica has applied a remote edit with a ticket after the removedAt of
\* a tombstone its version vector covers: the range of the edit begins
\* inside the tombstone, which is split, and both parts keep the removedAt.
C35_Witness ==
  \E a \in Actors : \E x \in Executions(a) :
    /\ x.op.type = "edit"
    /\ x.versionVector # NoVV
    /\ \E p \in 2..Len(x.before) :
         /\ IsRemoved(x.before[p])
         /\ After(x.op.executedAt, x.before[p].removedAt)
         /\ Seen(x.versionVector, x.before[p])
         /\ \E q \in 2..Len(x.after) : \E r \in 2..Len(x.after) :
              /\ q < r
              /\ x.after[q].id = x.before[p].id
              /\ x.after[r].insPrev = q
              /\ GetContentLength(x.after[q]) < GetContentLength(x.before[p])
              /\ x.after[q].removedAt = x.before[p].removedAt
              /\ x.after[r].removedAt = x.before[p].removedAt
              /\ x.op.fromPos # x.op.toPos

----------------------------------------------------------------------------
(* The sequence numbers of the local changes.                              *)

\* The clientSeq of the local changes go up by one from each to the next,
\* and the last one is the clientSeq of the changeID of the document.
Consecutive(d) ==
  /\ \A i \in 1..(Len(d.localChanges) - 1) :
       d.localChanges[i + 1].id.clientSeq = d.localChanges[i].id.clientSeq + 1
  /\ Len(d.localChanges) > 0
       => d.localChanges[Len(d.localChanges)].id.clientSeq = d.changeID.clientSeq

\* C36: in every reachable state the changes in localChanges have clientSeq
\* values that increase by exactly 1 from one entry to the next, and when
\* localChanges is not empty the clientSeq of the last entry is the one of
\* the changeID of the document; across update, presence-only update, undo
\* and redo (the skipped case too), applyChangePack and applySnapshot.
C36_LocalSequence == \A a \in Actors : Consecutive(doc[a])

-----------------------------------------------------------------------------
(* An update without a change.                                             *)

\* The last call is an update of a whose mutator touches neither the root
\* nor the presence and returns.
NoOpUpdate(a) ==
  /\ last.call.call = "update" /\ last.call.actor = a
  /\ ~last.call.threw
  /\ last.call.input.ops = <<>>
  /\ ~last.call.input.throws

\* C37: an update whose mutator pushes no operation and sets no presence
\* leaves the root, the local changes, the change id, the checkpoint and
\* both history stacks as they were and publishes no event batch.
C37_NoOpUpdate ==
  \A a \in Actors :
    NoOpUpdate(a) =>
      /\ doc[a].root = Old.root
      /\ doc[a].localChanges = Old.localChanges
      /\ doc[a].changeID = Old.changeID
      /\ doc[a].checkpoint = Old.checkpoint
      /\ doc[a].undoStack = Old.undoStack
      /\ doc[a].redoStack = Old.redoStack
      /\ doc[a].events = <<>>

\* An update without a change of a document that holds local changes and
\* something to redo.
C37_Witness ==
  \E a \in Actors :
    /\ NoOpUpdate(a)
    /\ Len(Old.localChanges) > 0
    /\ Len(Old.redoStack) > 0
    /\ Old.changeID.clientSeq > 0

-----------------------------------------------------------------------------
(* The watch stream.                                                       *)

\* The messages of the watch stream a client is given in a behaviour.
MaxMessages == 3

\* What the watch stream gives a client: an initialization with some of the
\* clients, and for every other client that it watches or no longer
\* watches the document.
Responses(a) ==
  {Response("initialization", "", "none", clientIDs) : clientIDs \in SUBSET Actors}
  \cup {Response("event", type, publisher, {}) :
          type \in {"DOCUMENT_WATCHED", "DOCUMENT_UNWATCHED"},
          publisher \in Actors \ {a}}

\* The client is given a message of its watch stream.
ApplyWatchStream(a) ==
  /\ CanCall(a)
  /\ doc[a].status = "attached"
  /\ \E resp \in Responses(a) :
       /\ doc' = [doc EXCEPT ![a] = DocApplyWatchStream(doc[a], resp)]
       /\ last' = LastOf(CallOf("watch", a, FALSE,
                                [ops |-> <<>>, throws |-> FALSE, resp |-> resp],
                                ~doc[a].hasClone, Before(doc[a])),
                         NoCall, NoGC)
  /\ quota' = Spent(a)
  /\ UNCHANGED <<server, inflight, typing>>

\* The watch stream of client A: client B sets its presence and clears it,
\* client A is given the messages of its watch stream in any order, and
\* both sync.
InitWatch ==
  InitWith(<<>>,
           QuotaOf(MaxMessages + PairCalls + PairCalls,
                   [a \in Actors |-> IF a = "A" THEN MaxMessages
                                     ELSE PairCalls + PairCalls], 0),
           [a \in Actors |->
              InputOf(IF a = "A" THEN <<"a">> ELSE <<"b">>,
                      IF a = "A" THEN {} ELSE {"presence", "clear"})])

NextWatch ==
  \/ Next
  \/ \E a \in Actors : ApplyWatchStream(a)

SpecWatch == InitWatch /\ [][NextWatch]_vars

\* The event tells that the client watches the document: Watched of the
\* client, or Initialized with the client among its presences.
Announces(docEvent, c) ==
  \/ docEvent.type = "watched" /\ docEvent.actor = c
  \/ docEvent.type = "initialized" /\ \E v \in docEvent.value : v.clientID = c

\* The event is the Unwatched of the client.
Withdraws(docEvent, c) == docEvent.type = "unwatched" /\ docEvent.actor = c

\* Every Unwatched of the client follows a Watched of the client, or an
\* Initialized with the client, with no Unwatched of the client in between.
UnwatchedAfterWatched(log, c) ==
  \A i \in 1..Len(log) :
    Withdraws(log[i], c) =>
      \E j \in 1..(i - 1) :
        /\ Announces(log[j], c)
        /\ \A k \in (j + 1)..(i - 1) : ~Withdraws(log[k], c)

\* Between two Watched of the client there is an Unwatched of the client.
NoSecondWatched(log, c) ==
  \A i, j \in 1..Len(log) :
    i < j /\ log[i].type = "watched" /\ log[i].actor = c
          /\ log[j].type = "watched" /\ log[j].actor = c =>
      \E k \in (i + 1)..(j - 1) : Withdraws(log[k], c)

\* Every Watched and every Unwatched carries a presence that is defined.
DefinedPresence(log) ==
  \A i \in 1..Len(log) :
    log[i].type \in {"watched", "unwatched"} =>
      \A v \in log[i].value : v.presence.has

\* C38: of the events a document has published, for every other client,
\* every Unwatched follows a Watched (or an Initialized that lists the
\* client) published since the last Unwatched, no two Watched come without
\* an Unwatched in between, and every Watched and Unwatched carries a
\* defined presence.
C38_WatchedPairing ==
  \A a \in Actors :
    /\ DefinedPresence(doc[a].watchLog)
    /\ \A c \in Actors \ {a} :
         /\ UnwatchedAfterWatched(doc[a].watchLog, c)
         /\ NoSecondWatched(doc[a].watchLog, c)

-----------------------------------------------------------------------------
(* The tickets of the local operations.                                    *)

\* No ticket comes twice among the tickets of the operations the document
\* has executed on its root through update, undo and redo.
DistinctTickets(d) ==
  \A i, j \in 1..Len(d.executed) : i < j => d.executed[i] # d.executed[j]

\* C39: any two operations a document has executed on its root through
\* update, undo or redo carry distinct executedAt tickets, the operations
\* of an undo or redo whose change was not kept and the operations of the
\* next local change too.
C39_TicketUniqueness == \A a \in Actors : DistinctTickets(doc[a])

\* The last call is an undo or a redo that executed operations and kept no
\* change.
SkippedReplay(a) ==
  /\ last.call.call \in {"undo", "redo"} /\ last.call.actor = a
  /\ ~last.call.threw
  /\ Len(doc[a].executed) > Len(Old.executed)
  /\ doc[a].localChanges = Old.localChanges

\* Client A inserts its letters, undoes and redoes; client B deletes from
\* the text once; both sync.
InitReplay ==
  InitWith(<<>>,
           QuotaOf(MaxCalls + PairCalls,
                   [a \in Actors |-> IF a = "A" THEN MaxCalls ELSE PairCalls], 0),
           [a \in Actors |->
              InputOf(IF a = "A" THEN <<"a">> ELSE <<"b">>,
                      IF a = "A" THEN {"insert"} ELSE {"delete"})])

NextReplay ==
  \/ Next
  \/ \E a \in Actors : Undo(a)
  \/ \E a \in Actors : Redo(a)

SpecReplay == InitReplay /\ [][NextReplay]_vars

====
